---- MODULE Spec2Model ----
(***************************************************************************)
(* Position encoding and dataset materialisation of chess-bachelor         *)
(* (src/python/utils/training_utils.py and the training mains that use it).*)
(*                                                                         *)
(* A position string is the record of its whitespace-separated fields,     *)
(* each a sequence of one-character strings; the two move counters do not  *)
(* reach any encoder and are left out.                                     *)
(***************************************************************************)
EXTENDS Integers, Sequences, FiniteSets, TLC

VARIABLES
    fen,          \* SpecEnc: the position string handed to the encoders
    bitboard,     \* SpecEnc: result of encode_fen_to_bitboard(fen)
    onehot,       \* SpecEnc: result of encode_fen_string(fen)
    extra,        \* SpecEnc: result of encode_extra_features(fen)
    nrows,        \* SpecSplit: number of rows the query returned
    fetcher,      \* SpecSplit: which fetch function runs
    split,        \* SpecSplit: result of the fetch function
    table,        \* Spec: rows of chess_positions_lichess, in fetch order
    batch_size,   \* Spec: the batch size handed to create_dataset
    pc,           \* Spec: where the training main is
    dfs,          \* Spec: (train_df, val_df) of the current run
    files,        \* Spec: the two record files on disk
    wstatus,      \* Spec: how the last create_tfrecord_file on a file ended
    written_from, \* Spec: the rows the last create_tfrecord_file was given
    rpos,         \* Spec: records the TFRecordDataset has read
    srcdone,      \* Spec: the TFRecordDataset reached the end or failed
    inflight,     \* Spec: elements in the parallel map
    batchbuf,     \* Spec: elements of the batch being filled
    pdone,        \* Spec: the batch stage has ended
    prefetched,   \* Spec: the prefetch buffer
    consumed,     \* Spec: batches the training loop received, per file
    rstatus,      \* Spec: how iterating each dataset ended
    driver,       \* SpecDrivers: the script that is run
    stage,        \* SpecDrivers: where the script is
    record,       \* SpecDrivers: a record of the file the script reads
    element_spec, \* SpecDrivers: shapes the script feeds to the model
    model_inputs, \* SpecDrivers: shapes of the model's inputs
    eval_str,        \* SpecNorm: the token EVAL_REGEX captured in a comment
    normalized_eval, \* SpecNorm: result of normalize_evaluation(eval_str)
    position_list,   \* SpecNorm: the rows gathered for the table
    info,            \* SpecEval: what engine.analyse gives for the position
    evaluated,       \* SpecEval: result of evaluate_position
    db_row,          \* SpecEval: the position's row of chess_positions
    train_rows,      \* SpecEval: the rows the fetch_data query returns
    script,          \* SpecScale: the standardizing script that is run
    where,           \* SpecScale: where the script is
    label_df,        \* SpecScale: the black_score columns of (train_df, val_df)
    scaler,          \* SpecScale: the StandardScaler object
    scaler_calls,    \* SpecScale: the calls made on the scaler, in order
    y_train,         \* SpecScale: the training labels handed to model.fit
    y_val,           \* SpecScale: the validation labels handed to model.fit
    scaler_pkl,      \* SpecScale: what the run persisted for the scaler
    enc_calls,       \* SpecCalls: the encoder calls made so far, with their results
    chess_positions, \* SpecLoop: the rows of the table chess_positions, by id
    loop_at,         \* SpecLoop: where evaluate_positions.main is
    positions,       \* SpecLoop: the ids fetch_unrated_positions returned
    evaluated_positions, \* SpecLoop: the results pool.map returned, by id
    position_data,   \* SpecEngine: the argument of evaluate_position and what the engine will do
    ev_at,           \* SpecEngine: where the call of evaluate_position is
    engine,          \* SpecEngine: the engine process of the call
    ev_exc,          \* SpecEngine: an exception is propagating
    ev_info,         \* SpecEngine: what engine.analyse returned
    ev_result,       \* SpecEngine: what evaluate_position returned
    tfrecords,       \* SpecRuns: train.tfrecords and val.tfrecords on disk
    mains,           \* SpecRuns: the training mains, each with its position and frames
    nfetches,        \* SpecRuns: fetch_data_from_db calls made so far
    nruns,           \* SpecRuns: mains started so far
    db_call,         \* SpecDb: the running call of a database function
    database,        \* SpecDb: what the MySQL server holds
    database_before, \* SpecDb: what it held when the call began
    pgn_file,        \* SpecPgn: the games of the PGN file not read yet
    pgn_run,         \* SpecPgn: the extraction loop: position, game number, sampled nodes, position_list
    accepted,        \* SpecPgn: the pairs appended to position_list so far
    insert_calls     \* SpecPgn: the lists passed to insert_position_list_into_db so far

encVars    == <<fen, bitboard, onehot, extra>>
splitVars  == <<nrows, fetcher, split>>
inputVars  == <<table, batch_size>>
mainVars   == <<pc, dfs>>
fileVars   == <<files, wstatus, written_from>>
stageVars  == <<rpos, srcdone, inflight, batchbuf, pdone, prefetched>>
readerVars == <<stageVars, consumed, rstatus>>
pipeVars   == <<inputVars, mainVars, fileVars, readerVars>>
driverVars == <<driver, stage, record, element_spec, model_inputs>>
\* The variables of the specifications that follow Spec.
normVars   == <<eval_str, normalized_eval, position_list>>
evalVars   == <<info, evaluated, db_row, train_rows>>
scaleVars  == <<script, where, label_df, scaler, scaler_calls, y_train, y_val, scaler_pkl>>
callVars   == <<enc_calls>>
\* The variables of the specifications that follow SpecScale.
loopVars   == <<chess_positions, loop_at, positions, evaluated_positions>>
engVars    == <<position_data, ev_at, engine, ev_exc, ev_info, ev_result>>
runVars    == <<tfrecords, mains, nfetches, nruns>>
dbVars     == <<db_call, database, database_before>>
pgnVars    == <<pgn_file, pgn_run, accepted, insert_calls>>
laterVars  == <<callVars, loopVars, engVars, runVars, dbVars, pgnVars>>
otherVars  == <<driverVars, normVars, evalVars, scaleVars, laterVars>>
\* The variables of the specifications up to SpecScale.
settledVars == <<encVars, splitVars, pipeVars, driverVars, normVars, evalVars, scaleVars>>
\* What the actions of one of the later specifications leave alone.
notCallVars == <<settledVars, loopVars, engVars, runVars, dbVars, pgnVars>>
notLoopVars == <<settledVars, callVars, engVars, runVars, dbVars, pgnVars>>
notEngVars  == <<settledVars, callVars, loopVars, runVars, dbVars, pgnVars>>
notRunVars  == <<settledVars, callVars, loopVars, engVars, dbVars, pgnVars>>
notDbVars   == <<settledVars, callVars, loopVars, engVars, runVars, pgnVars>>
notPgnVars  == <<settledVars, callVars, loopVars, engVars, runVars, dbVars>>

(***************************************************************************)
(* Results of a call                                                       *)
(***************************************************************************)
NotCalled   == [st |-> "not_called"]
Returned(v) == [st |-> "returned", val |-> v]
Raised(e)   == [st |-> "raised", exc |-> e]

(***************************************************************************)
(* Characters                                                              *)
(***************************************************************************)
DigitChars   == {"1", "2", "3", "4", "5", "6", "7", "8"}
WhiteSymbols == {"P", "N", "B", "R", "Q", "K"}
BlackSymbols == {"p", "n", "b", "r", "q", "k"}
PieceSymbols == WhiteSymbols \cup BlackSymbols
FileChars    == {"a", "b", "c", "d", "e", "f", "g", "h"}
NoPiece      == "none"

DigitVal(c) ==
    CASE c = "1" -> 1 [] c = "2" -> 2 [] c = "3" -> 3 [] c = "4" -> 4
      [] c = "5" -> 5 [] c = "6" -> 6 [] c = "7" -> 7 [] c = "8" -> 8

\* str.split(sep) on a sequence of characters: the pieces between the
\* separators, the k-th piece lying between the (k-1)-th and the k-th one.
Split(s, sep) ==
    LET at     == {i \in 1 .. Len(s) : s[i] = sep}
        cut(k) == IF k = 0 THEN 0
                  ELSE IF k = Cardinality(at) + 1 THEN Len(s) + 1
                  ELSE CHOOSE i \in at :
                          Cardinality({j \in at : j <= i}) = k
    IN  [k \in 1 .. Cardinality(at) + 1 |->
            SubSeq(s, cut(k - 1) + 1, cut(k) - 1)]

\* str.replace(c, ''): the characters other than c, in order.
RemoveChar(s, c) == SelectSeq(s, LAMBDA ch : ch # c)

RECURSIVE Join(_, _)
Join(parts, sep) ==
    IF Len(parts) = 0 THEN <<>>
    ELSE IF Len(parts) = 1 THEN parts[1]
    ELSE parts[1] \o <<sep>> \o Join(Tail(parts), sep)

(***************************************************************************)
(* chess.Board(fen): squares are numbered 0 (a1) .. 63 (h8), rank-major    *)
(* from rank 1.  The placement field is read from rank 8 down, so the n-th *)
(* square of the text is square n XOR 56 (SQUARES_180).                    *)
(***************************************************************************)
Squares        == 0 .. 63
SquareRank(sq) == sq \div 8
SquareFile(sq) == sq % 8
Mirror(sq)     == (7 - SquareRank(sq)) * 8 + SquareFile(sq)

RECURSIVE RowFieldSum(_)
RowFieldSum(row) ==
    IF row = <<>> THEN 0
    ELSE (IF Head(row) \in DigitChars THEN DigitVal(Head(row)) ELSE 1)
         + RowFieldSum(Tail(row))

ValidRow(row) ==
    /\ \A i \in 1 .. Len(row) : row[i] \in DigitChars \cup PieceSymbols
    /\ \A i \in 1 .. Len(row) - 1 :
          ~(row[i] \in DigitChars /\ row[i + 1] \in DigitChars)
    /\ RowFieldSum(row) = 8

ValidBoardFen(b) ==
    LET rows == Split(b, "/")
    IN  /\ Len(rows) = 8
        /\ \A i \in 1 .. 8 : ValidRow(rows[i])

CastlingUpper == {"K", "Q", "A", "B", "C", "D", "E", "F", "G", "H"}
CastlingLower == {"k", "q", "a", "b", "c", "d", "e", "f", "g", "h"}

ValidCastlingFen(c) ==
    \/ c = <<"-">>
    \/ /\ \A i \in 1 .. Len(c) : c[i] \in CastlingUpper \cup CastlingLower
       /\ Cardinality({i \in 1 .. Len(c) : c[i] \in CastlingUpper}) <= 2
       /\ Cardinality({i \in 1 .. Len(c) : c[i] \in CastlingLower}) <= 2
       /\ \A i, j \in 1 .. Len(c) :
             (c[i] \in CastlingLower /\ c[j] \in CastlingUpper) => j < i

ValidEpFen(e) ==
    \/ e = <<"-">>
    \/ Len(e) = 2 /\ e[1] \in FileChars /\ e[2] \in DigitChars

ValidFen(f) ==
    /\ ValidBoardFen(f.board)
    /\ f.turn \in {"w", "b"}
    /\ ValidCastlingFen(f.castling)
    /\ ValidEpFen(f.ep)

\* The eight squares a rank of the placement field describes: a digit is
\* that many empty squares, a letter is a piece.
RECURSIVE ExpandRow(_)
ExpandRow(row) ==
    IF row = <<>> THEN <<>>
    ELSE (IF Head(row) \in DigitChars
          THEN [i \in 1 .. DigitVal(Head(row)) |-> NoPiece]
          ELSE <<Head(row)>>) \o ExpandRow(Tail(row))

\* board.piece_map() after chess.Board(fen): the piece symbol on each square,
\* NoPiece on an empty one.  The parser walks the placement field with one
\* running square counter; on a field that passed validation (eight ranks of
\* eight squares) that counter is the position in the ranks laid end to end.
PieceMap(f) ==
    LET rows == Split(f.board, "/")
        text == ExpandRow(rows[1]) \o ExpandRow(rows[2]) \o ExpandRow(rows[3])
                \o ExpandRow(rows[4]) \o ExpandRow(rows[5]) \o ExpandRow(rows[6])
                \o ExpandRow(rows[7]) \o ExpandRow(rows[8])
    IN  [sq \in Squares |-> text[Mirror(sq) + 1]]

\* The castling rights python-chess keeps: the flag of the field, a king on
\* its e-file home square and a rook on the corner.
HasCastlingRights(f, flag, kingSym, kingSq, rookSym, rookSq) ==
    LET pm == PieceMap(f)
    IN  /\ \E i \in 1 .. Len(f.castling) : f.castling[i] = flag
        /\ pm[kingSq] = kingSym
        /\ pm[rookSq] = rookSym

(***************************************************************************)
(* encode_extra_features                                                   *)
(***************************************************************************)
Flag(b) == IF b THEN 1 ELSE 0

\* The mutant sets the first flag when White is to move.
encode_extra_features_WhiteIsOne(f) ==
    IF ~ValidFen(f) THEN Raised("ValueError")
    ELSE Returned(<<
        Flag(f.turn = "w"),
        Flag(HasCastlingRights(f, "K", "K", 4, "R", 7)),
        Flag(HasCastlingRights(f, "Q", "K", 4, "R", 0)),
        Flag(HasCastlingRights(f, "k", "k", 60, "r", 63)),
        Flag(HasCastlingRights(f, "q", "k", 60, "r", 56)),
        Flag(f.ep # <<"-">>) >>)

encode_extra_features(f) ==
    IF ~ValidFen(f) THEN Raised("ValueError")
    ELSE Returned(<<
        Flag(f.turn = "b"),
        Flag(HasCastlingRights(f, "K", "K", 4, "R", 7)),
        Flag(HasCastlingRights(f, "Q", "K", 4, "R", 0)),
        Flag(HasCastlingRights(f, "k", "k", 60, "r", 63)),
        Flag(HasCastlingRights(f, "q", "k", 60, "r", 56)),
        Flag(f.ep # <<"-">>) >>)

(***************************************************************************)
(* encode_fen_to_bitboard                                                  *)
(***************************************************************************)
IsWhite(sym) == sym \in WhiteSymbols

piece_to_index(sym) ==
    CASE sym \in {"P", "p"} -> 0 [] sym \in {"N", "n"} -> 1
      [] sym \in {"B", "b"} -> 2 [] sym \in {"R", "r"} -> 3
      [] sym \in {"Q", "q"} -> 4 [] sym \in {"K", "k"} -> 5

BitboardIndex(sym) == piece_to_index(sym) + (IF IsWhite(sym) THEN 0 ELSE 6)

\* The mutant keeps one array for all calls: the ones an earlier call of
\* encode_fen_to_bitboard set are still there.
Bitboards_Accumulating(pm) ==
    LET earlier == {i \in DOMAIN enc_calls :
                       /\ enc_calls[i].fn = "encode_fen_to_bitboard"
                       /\ enc_calls[i].out.st = "returned"}
    IN  [idx \in 0 .. 11 |->
            [sq \in Squares |->
                LET flat == idx * 64 + sq
                IN  IF pm[sq] # NoPiece /\ BitboardIndex(pm[sq]) = idx THEN 1
                    ELSE IF \E i \in earlier :
                               enc_calls[i].out.val[flat \div 96][(flat % 96) \div 12][flat % 12] = 1
                         THEN 1 ELSE 0]]

\* np.zeros((12, 64)) with bitboards[idx][square] = 1 for every piece.
Bitboards(pm) ==
    [idx \in 0 .. 11 |->
        [sq \in Squares |->
            IF pm[sq] # NoPiece /\ BitboardIndex(pm[sq]) = idx THEN 1 ELSE 0]]

\* ndarray.reshape((8, 8, 12)) of a C-ordered (12, 64) array: the flat
\* element order is kept, element (r, c, k) is flat element r*96 + c*12 + k.
Reshape_8_8_12(bb) ==
    [r \in 0 .. 7 |-> [c \in 0 .. 7 |-> [k \in 0 .. 11 |->
        LET flat == r * 96 + c * 12 + k
        IN  bb[flat \div 64][flat % 64]]]]

encode_fen_to_bitboard(f) ==
    IF ~ValidFen(f) THEN Raised("ValueError")
    ELSE Returned(Reshape_8_8_12(Bitboards(PieceMap(f))))

(***************************************************************************)
(* encode_fen_string                                                       *)
(***************************************************************************)
\* str(board): squares from a8 to h1, '.' for an empty square, a space
\* between the squares of a rank and a newline between ranks.
BoardStr(pm) ==
    [j \in 1 .. 127 |->
        LET n == (j - 1) \div 2
        IN  IF j % 2 = 1
            THEN (IF pm[Mirror(n)] = NoPiece THEN "." ELSE pm[Mirror(n)])
            ELSE (IF SquareFile(Mirror(n)) = 7 THEN "\n" ELSE " ")]

Pieces13 == <<"r", "n", "b", "q", "k", "p", "R", "N", "B", "Q", "K", "P", ".">>

\* The mutant leaves the empty square out of the alphabet's hit.
one_hot_encode_piece_NoEmpty(piece) ==
    [i \in 1 .. Len(Pieces13) |->
        IF Pieces13[i] = piece /\ piece # "." THEN 1 ELSE 0]

one_hot_encode_piece(piece) ==
    [i \in 1 .. Len(Pieces13) |-> IF Pieces13[i] = piece THEN 1 ELSE 0]

encode_board(board_str) ==
    LET rows == SelectSeq(Split(RemoveChar(board_str, " "), "\n"),
                          LAMBDA row : row # <<>>)
    IN  [r \in 1 .. Len(rows) |->
            [c \in 1 .. Len(rows[r]) |-> one_hot_encode_piece(rows[r][c])]]

encode_fen_string(f) ==
    IF ~ValidFen(f) THEN Raised("ValueError")
    ELSE Returned(encode_board(BoardStr(PieceMap(f))))

(***************************************************************************)
(* Positions the encoders are run on: every combination of the ranks       *)
(* below (one king a side, no pawn on a back rank), with three settings of *)
(* the side, castling and en-passant fields, and three malformed strings.  *)
(***************************************************************************)
Rank8Choices == { <<"r","n","b","q","k","b","n","r">>, <<"4","k","3">>,
                  <<"r","3","k","2","r">> }
Rank7Choices == { <<"p","p","p","p","p","p","p","p">>, <<"p","2","p","3","p">> }
MidChoices   == { <<"8","/","8","/","8","/","8">>,
                  <<"8","/","4","p","3","/","4","P","3","/","8">>,
                  <<"2","n","5","/","8","/","8","/","3","Q","4">> }
Rank2Choices == { <<"P","P","P","P","P","P","P","P">>, <<"8">> }
Rank1Choices == { <<"R","N","B","Q","K","B","N","R">>, <<"R","3","K","2","R">> }

FieldChoices ==
    { [turn |-> "w", castling |-> <<"K","Q","k","q">>, ep |-> <<"-">>],
      [turn |-> "b", castling |-> <<"K","q">>, ep |-> <<"e","3">>],
      [turn |-> "w", castling |-> <<"-">>, ep |-> <<"-">>] }

MakeFen(b, x) ==
    [board |-> b, turn |-> x.turn, castling |-> x.castling, ep |-> x.ep]

StartBoard ==
    Join(<< <<"r","n","b","q","k","b","n","r">>,
            <<"p","p","p","p","p","p","p","p">>,
            <<"8","/","8","/","8","/","8">>,
            <<"P","P","P","P","P","P","P","P">>,
            <<"R","N","B","Q","K","B","N","R">> >>, "/")

\* rnbqkbnr/pppppppp/8/8/8/8/PPPPPPPP/RNBQKBNR w KQkq -
StartFen ==
    [board |-> StartBoard, turn |-> "w",
     castling |-> <<"K","Q","k","q">>, ep |-> <<"-">>]

LegalFens ==
    { MakeFen(Join(<<r8, r7, m, r2, r1>>, "/"), x) :
        r8 \in Rank8Choices, r7 \in Rank7Choices, m \in MidChoices,
        r2 \in Rank2Choices, r1 \in Rank1Choices, x \in FieldChoices }

\* Seven ranks; two digits in a row; an unknown piece letter; an unknown side.
MalformedFens ==
    { [StartFen EXCEPT !.board =
          <<"8","/","8","/","8","/","8","/","8","/","8","/","8">>],
      [StartFen EXCEPT !.board =
          Join(<< <<"4","k","3">>, <<"4","4">>,
                  <<"8","/","8","/","8","/","8">>, <<"8">>,
                  <<"4","K","3">> >>, "/")],
      [StartFen EXCEPT !.board =
          Join(<< <<"4","k","3">>, <<"8">>,
                  <<"8","/","8","/","8","/","8">>, <<"8">>,
                  <<"4","K","2","X">> >>, "/")],
      [StartFen EXCEPT !.turn = "x"] }

FenSet == LegalFens \cup MalformedFens

(***************************************************************************)
(* SpecEnc: each encoder applied to a position string.                     *)
(***************************************************************************)
EncIdle ==
    /\ bitboard = NotCalled
    /\ onehot = NotCalled
    /\ extra = NotCalled

SplitIdle ==
    /\ nrows = 0
    /\ fetcher = "none"
    /\ split = NotCalled

FileNames == {"train", "val"}

\* A path at which os.path.exists is false.
NoFile == [exists |-> FALSE, recs |-> <<>>, partial |-> FALSE]

ReaderIdle ==
    /\ rpos = 0
    /\ srcdone = FALSE
    /\ inflight = <<>>
    /\ batchbuf = <<>>
    /\ pdone = FALSE
    /\ prefetched = <<>>
    /\ consumed = [f \in FileNames |-> <<>>]
    /\ rstatus = [f \in FileNames |-> "none"]

PipeIdle ==
    /\ table = <<>>
    /\ batch_size = 1
    /\ pc = "off"
    /\ dfs = [train |-> <<>>, val |-> <<>>]
    /\ files = [f \in FileNames |-> NoFile]
    /\ wstatus = [f \in FileNames |-> "none"]
    /\ written_from = [f \in FileNames |-> <<>>]
    /\ ReaderIdle

DriversIdle ==
    /\ driver = "none"
    /\ stage = "off"
    /\ record = <<>>
    /\ element_spec = NotCalled
    /\ model_inputs = NotCalled

NormIdle ==
    /\ eval_str = <<>>
    /\ normalized_eval = NotCalled
    /\ position_list = <<>>

\* Values of a nullable column (None in Python).
Null == [kind |-> "NULL"]

Value(v) == [kind |-> "value", v |-> v]

EvalIdle ==
    /\ info = [kind |-> "none"]
    /\ evaluated = NotCalled
    /\ db_row = [black_score |-> Null, best_move |-> Null]
    /\ train_rows = NotCalled

Unfitted == [fitted |-> FALSE]

ScaleIdle ==
    /\ script = "none"
    /\ where = "idle"
    /\ label_df = [train |-> <<>>, val |-> <<>>]
    /\ scaler = Null
    /\ scaler_calls = <<>>
    /\ y_train = NotCalled
    /\ y_val = NotCalled
    /\ scaler_pkl = Null

CallsIdle == enc_calls = <<>>

LoopIdle ==
    /\ chess_positions = <<>>
    /\ loop_at = "off"
    /\ positions = {}
    /\ evaluated_positions = <<>>

EngineIdle ==
    /\ position_data = [kind |-> "none"]
    /\ ev_at = "off"
    /\ engine = "not_started"
    /\ ev_exc = FALSE
    /\ ev_info = NotCalled
    /\ ev_result = NotCalled

RunsIdle ==
    /\ tfrecords = <<>>
    /\ mains = <<>>
    /\ nfetches = 0
    /\ nruns = 0

DbIdle ==
    /\ db_call = [at |-> "off"]
    /\ database = [kind |-> "none"]
    /\ database_before = [kind |-> "none"]

PgnIdle ==
    /\ pgn_file = <<>>
    /\ pgn_run = [at |-> "off"]
    /\ accepted = <<>>
    /\ insert_calls = <<>>

LaterIdle == CallsIdle /\ LoopIdle /\ EngineIdle /\ RunsIdle /\ DbIdle /\ PgnIdle

OtherIdle == DriversIdle /\ NormIdle /\ EvalIdle /\ ScaleIdle /\ LaterIdle

InitEnc ==
    /\ fen \in FenSet
    /\ EncIdle
    /\ SplitIdle
    /\ PipeIdle
    /\ OtherIdle

EncodeFenToBitboard ==
    /\ bitboard = NotCalled
    /\ bitboard' = encode_fen_to_bitboard(fen)
    /\ UNCHANGED <<fen, onehot, extra, splitVars, pipeVars, otherVars>>

EncodeFenString ==
    /\ onehot = NotCalled
    /\ onehot' = encode_fen_string(fen)
    /\ UNCHANGED <<fen, bitboard, extra, splitVars, pipeVars, otherVars>>

EncodeExtraFeatures ==
    /\ extra = NotCalled
    /\ extra' = encode_extra_features(fen)
    /\ UNCHANGED <<fen, bitboard, onehot, splitVars, pipeVars, otherVars>>

NextEnc ==
    \/ EncodeFenToBitboard
    \/ EncodeFenString
    \/ EncodeExtraFeatures

vars == <<encVars, splitVars, pipeVars, otherVars>>

SpecEnc == InitEnc /\ [][NextEnc]_vars

(***************************************************************************)
(* fetch_data / fetch_data_from_db: the prefix/suffix cut of the fetched    *)
(* rows.  int(len(df) * 0.85) is a double product truncated towards zero;   *)
(* for every row count up to 2 * 10^6 it is the integer quotient below.     *)
(***************************************************************************)
MaxRows == 100

Min(a, b) == IF a < b THEN a ELSE b

\* df.iloc[:stop] and df.iloc[start:] for 0 <= start, stop.
IlocTo(df, stop)    == SubSeq(df, 1, Min(stop, Len(df)))
IlocFrom(df, start) == SubSeq(df, Min(start, Len(df)) + 1, Len(df))

\* The mutant starts the validation slice one row late.
SplitRows_SkipOne(df, num, den) ==
    LET ratio == (Len(df) * num) \div den
    IN  [train |-> IlocTo(df, ratio), val |-> IlocFrom(df, ratio + 1)]

SplitRows(df, num, den) ==
    LET ratio == (Len(df) * num) \div den
    IN  [train |-> IlocTo(df, ratio), val |-> IlocFrom(df, ratio)]

fetch_data_from_db(df) == SplitRows(df, 85, 100)

fetch_data(df) == SplitRows(df, 80, 100)

\* The rows of a query result, named by their position in the fetched order.
FetchedRows(n) == [i \in 1 .. n |-> i]

InitSplit ==
    /\ fen = StartFen
    /\ EncIdle
    /\ nrows \in 0 .. MaxRows
    /\ fetcher = "none"
    /\ split = NotCalled
    /\ PipeIdle
    /\ OtherIdle

FetchData ==
    /\ split = NotCalled
    /\ fetcher' = "fetch_data"
    /\ split' = Returned(fetch_data(FetchedRows(nrows)))
    /\ UNCHANGED <<encVars, nrows, pipeVars, otherVars>>

FetchDataFromDb ==
    /\ split = NotCalled
    /\ fetcher' = "fetch_data_from_db"
    /\ split' = Returned(fetch_data_from_db(FetchedRows(nrows)))
    /\ UNCHANGED <<encVars, nrows, pipeVars, otherVars>>

NextSplit ==
    \/ FetchData
    \/ FetchDataFromDb

SpecSplit == InitSplit /\ [][NextSplit]_vars

(***************************************************************************)
(* Claims about the split (checked under SpecSplit)                        *)
(***************************************************************************)
Elems(sq) == {sq[i] : i \in 1 .. Len(sq)}

\* 100 * ratio of the fetch function that ran.
RatioPercent == IF fetcher = "fetch_data" THEN 80 ELSE 85

\* C7: the training split is the first floor(n * ratio) fetched rows and the
\* validation split the remaining rows, both in fetched order; no row is in
\* both and every row is in one; 100 rows at 80% give the first 80 and the
\* last 20.
C7_PrefixSuffixSplit ==
    split.st = "returned" =>
        LET train == split.val.train
            val   == split.val.val
            df    == FetchedRows(nrows)
        IN  /\ train \o val = df
            /\ 100 * Len(train) <= RatioPercent * nrows
            /\ RatioPercent * nrows < 100 * (Len(train) + 1)
            /\ Elems(train) \cap Elems(val) = {}
            /\ Elems(train) \cup Elems(val) = Elems(df)
            /\ (nrows = 100 /\ fetcher = "fetch_data") =>
                  /\ train = [i \in 1 .. 80 |-> i]
                  /\ val = [i \in 1 .. 20 |-> 80 + i]

\* C7 witness: 100 rows have been cut at 80%.
C7_Witness ==
    /\ nrows = 100
    /\ fetcher = "fetch_data"
    /\ split.st = "returned"
    /\ Len(split.val.train) = 80
    /\ Len(split.val.val) = 20

(***************************************************************************)
(* Claims about the encoders (checked under SpecEnc)                       *)
(***************************************************************************)
\* The square shown at row r, column c when row 0 is rank 8 and column 0 is
\* file a.
SquareAt(r, c) == (7 - r) * 8 + c

Index13(sym) == CHOOSE i \in 1 .. Len(Pieces13) : Pieces13[i] = sym

\* C1: on a legal position the 12-plane tensor has at most one channel set
\* per square, an empty square is zero in all 12 channels, and channel k
\* holds as many 1s as the board holds pieces of channel k's type and colour.
C1_BitboardPlanes ==
    (fen \in LegalFens /\ bitboard.st = "returned") =>
        LET t  == bitboard.val
            pm == PieceMap(fen)
        IN  /\ \A r, c \in 0 .. 7 :
                  Cardinality({k \in 0 .. 11 : t[r][c][k] = 1}) <= 1
            /\ \A r, c \in 0 .. 7 :
                  pm[SquareAt(r, c)] = NoPiece =>
                      \A k \in 0 .. 11 : t[r][c][k] = 0
            /\ \A k \in 0 .. 11 :
                  Cardinality({rc \in (0 .. 7) \X (0 .. 7) :
                                  t[rc[1]][rc[2]][k] = 1})
                  = Cardinality({sq \in Squares :
                                  pm[sq] # NoPiece /\ BitboardIndex(pm[sq]) = k})

\* C2: on a legal position the 13-plane tensor is 8 x 8 x 13, the vector of
\* each square is 1 at the index of the square's symbol ('.' for an empty
\* square) and 0 elsewhere, and the whole tensor sums to 64.
C2_OneHotPlanes ==
    (fen \in LegalFens /\ onehot # NotCalled) =>
        /\ onehot.st = "returned"
        /\ LET t  == onehot.val
               pm == PieceMap(fen)
           IN  /\ DOMAIN t = 1 .. 8
               /\ \A r \in 1 .. 8 :
                     /\ DOMAIN t[r] = 1 .. 8
                     /\ \A c \in 1 .. 8 :
                           LET sym == IF pm[SquareAt(r - 1, c - 1)] = NoPiece
                                      THEN "."
                                      ELSE pm[SquareAt(r - 1, c - 1)]
                           IN  /\ DOMAIN t[r][c] = 1 .. 13
                               /\ \A i \in 1 .. 13 :
                                     t[r][c][i] = Flag(i = Index13(sym))
               /\ Cardinality({x \in (1 .. 8) \X (1 .. 8) \X (1 .. 13) :
                                  t[x[1]][x[2]][x[3]] = 1}) = 64
               /\ \A x \in (1 .. 8) \X (1 .. 8) \X (1 .. 13) :
                     t[x[1]][x[2]][x[3]] \in {0, 1}

\* C2 witness: the standard start position has been encoded (32 pieces, 32
\* empty squares).
C2_Witness ==
    /\ fen = StartFen
    /\ onehot.st = "returned"
    /\ onehot.val[1][1][1] = 1
    /\ onehot.val[4][4][13] = 1

\* C3: both encoders put a piece at the same (row, col): for every piece of
\* the position, the 12-plane tensor and the 13-plane tensor both set that
\* piece's channel at row 7 - rank, column file (row 0 is rank 8, column 0
\* is file a).
C3_SameSquareOrdering ==
    (fen \in LegalFens /\ bitboard.st = "returned" /\ onehot.st = "returned") =>
        LET pm == PieceMap(fen)
        IN  \A sq \in Squares :
                pm[sq] # NoPiece =>
                    LET r == 7 - SquareRank(sq)
                        c == SquareFile(sq)
                    IN  /\ onehot.val[r + 1][c + 1][Index13(pm[sq])] = 1
                        /\ bitboard.val[r][c][BitboardIndex(pm[sq])] = 1

\* Whether the castling field of f carries the letter c.
InCastlingField(f, c) == \E i \in 1 .. Len(f.castling) : f.castling[i] = c

\* The flags as the fields of the position string spell them.
FieldFlags(f) ==
    << Flag(f.turn = "b"),
       Flag(InCastlingField(f, "K")), Flag(InCastlingField(f, "Q")),
       Flag(InCastlingField(f, "k")), Flag(InCastlingField(f, "q")),
       Flag(f.ep # <<"-">>) >>

\* The n-th rank of the placement field as written (rank 8 first), expanded
\* to its eight squares (file a first).
RankText(f, n) == ExpandRow(Split(f.board, "/")[n])

\* King on the e-file and rook on the given file of a home rank.
AtHome(f, n, king, rook, rookFile) ==
    RankText(f, n)[5] = king /\ RankText(f, n)[rookFile] = rook

DoubleBits == 53
SingleBits == 24

Pow2Double(neg, e) ==
    [neg |-> neg, exp |-> e,
     man |-> [i \in 1 .. DoubleBits |-> IF i = 1 THEN 1 ELSE 0]]

Eval_1_0    == Pow2Double(FALSE, 0)
Eval_m1_0   == Pow2Double(TRUE, 0)
Eval_0_5    == Pow2Double(FALSE, -1)
Eval_m0_25  == Pow2Double(TRUE, -2)
Eval_0_3    == [neg |-> FALSE, exp |-> -2, man |-> <<1,0,0,1,1,0,0,1,1,0,0,1,1,0,0,1,1,0,0,1,1,0,0,1,1,0,0,1,1,0,0,1,1,0,0,1,1,0,0,1,1,0,0,1,1,0,0,1,1,0,0,1,1>>]
Eval_0_019  == [neg |-> FALSE, exp |-> -6, man |-> <<1,0,0,1,1,0,1,1,1,0,1,0,0,1,0,1,1,1,1,0,0,0,1,1,0,1,0,1,0,0,1,1,1,1,1,1,0,1,1,1,1,1,0,0,1,1,1,0,1,1,0,1,1>>]
Eval_m0_7   == [neg |-> TRUE, exp |-> -1, man |-> <<1,0,1,1,0,0,1,1,0,0,1,1,0,0,1,1,0,0,1,1,0,0,1,1,0,0,1,1,0,0,1,1,0,0,1,1,0,0,1,1,0,0,1,1,0,0,1,1,0,0,1,1,0>>]

\* Binary increment of a bit string: bit i flips when every later bit is 1.
BitsPlusOne(b) ==
    [i \in 1 .. Len(b) |->
        IF \A j \in i + 1 .. Len(b) : b[j] = 1 THEN 1 - b[i] ELSE b[i]]

ToFloat32(d) ==
    LET keep   == SubSeq(d.man, 1, SingleBits)
        half   == d.man[SingleBits + 1]
        sticky == \E i \in SingleBits + 2 .. DoubleBits : d.man[i] = 1
        up     == half = 1 /\ (sticky \/ keep[SingleBits] = 1)
    IN  IF ~up THEN [neg |-> d.neg, exp |-> d.exp, man |-> keep]
        ELSE IF \A i \in 1 .. SingleBits : keep[i] = 1
        THEN [neg |-> d.neg, exp |-> d.exp + 1,
              man |-> [i \in 1 .. SingleBits |-> IF i = 1 THEN 1 ELSE 0]]
        ELSE [neg |-> d.neg, exp |-> d.exp, man |-> BitsPlusOne(keep)]

\* The binary64 value equal to a binary32 value.
ToFloat64(x) ==
    [neg |-> x.neg, exp |-> x.exp,
     man |-> [i \in 1 .. DoubleBits |-> IF i <= SingleBits THEN x.man[i] ELSE 0]]

(***************************************************************************)
(* create_tfrecord_file                                                    *)
(***************************************************************************)
\* The mutant flattens with the first axis running fastest.
Flatten_ColumnMajor(t) ==
    [i \in 1 .. 768 |-> t[(i - 1) % 8][((i - 1) \div 8) % 8][(i - 1) \div 64]]

\* ndarray.flatten() of an (8, 8, 12) array: the last axis runs fastest.
Flatten(t) ==
    [i \in 1 .. 768 |-> t[(i - 1) \div 96][((i - 1) % 96) \div 12][(i - 1) % 12]]

\* The mutant writes the 13-plane board of encode_fen_string.
Example_Board13(row) ==
    LET t == encode_fen_string(row.fen).val
    IN  [board |-> [i \in 1 .. 832 |->
                      t[(i - 1) \div 104 + 1][((i - 1) % 104) \div 13 + 1][((i - 1) % 13) + 1]],
         extra |-> encode_extra_features(row.fen).val,
         label |-> <<ToFloat32(row.evaluation)>>]

\* The tf.train.Example of one row.
Example(row) ==
    [board |-> Flatten(encode_fen_to_bitboard(row.fen).val),
     extra |-> encode_extra_features(row.fen).val,
     label |-> <<ToFloat32(row.evaluation)>>]

\* Rows before the first one whose position string chess.Board rejects.
GoodPrefixLen(df) ==
    IF \A i \in 1 .. Len(df) : ValidFen(df[i].fen) THEN Len(df)
    ELSE (CHOOSE i \in 1 .. Len(df) :
             /\ ~ValidFen(df[i].fen)
             /\ \A j \in 1 .. i - 1 : ValidFen(df[j].fen)) - 1

\* create_tfrecord_file(df, filename) run to its end: the writer creates the
\* file, one record is written per row in order, and the with-block closes
\* the file, also when encoding a row raises (no row is written after that).
create_tfrecord_file(df) ==
    LET n == GoodPrefixLen(df)
    IN  [file   |-> [exists |-> TRUE,
                     recs |-> [i \in 1 .. n |-> Example(df[i])],
                     partial |-> FALSE],
         status |-> IF n = Len(df) THEN "complete" ELSE "raised"]

\* What is on disk when the process is stopped inside create_tfrecord_file:
\* the file exists, with the first j records and possibly the first bytes
\* of record j + 1.
InterruptedFiles(df) ==
    LET done == create_tfrecord_file(df).file.recs
    IN  { [exists |-> TRUE, recs |-> SubSeq(done, 1, j), partial |-> t] :
            j \in 0 .. Len(done), t \in BOOLEAN } \
        { [exists |-> TRUE, recs |-> done, partial |-> TRUE] }

(***************************************************************************)
(* _parse_function / create_dataset                                        *)
(***************************************************************************)
MapParallelism == 2
PrefetchDepth  == 1

\* tf.reshape(flat, (8, 8, 12)).
Reshape_768(flat) ==
    [r \in 0 .. 7 |-> [c \in 0 .. 7 |-> [k \in 0 .. 11 |->
        flat[r * 96 + c * 12 + k + 1]]]]

\* The mutant cuts or zero-pads each field to the declared length.
_parse_function_Reshaping(rec) ==
    LET fit(v, n) == [i \in 1 .. n |-> IF i <= Len(v) THEN v[i] ELSE 0]
    IN  Returned([board_input |-> Reshape_768(fit(rec.board, 8 * 8 * 12)),
                  extra_input |-> fit(rec.extra, 6),
                  label       |-> fit(rec.label, 1)[1]])

\* FixedLenFeature rejects a field of another length.
_parse_function(rec) ==
    IF Len(rec.board) # 8 * 8 * 12 \/ Len(rec.extra) # 6 \/ Len(rec.label) # 1
    THEN Raised("InvalidArgumentError")
    ELSE Returned([board_input |-> Reshape_768(rec.board),
                   extra_input |-> rec.extra,
                   label       |-> rec.label[1]])

\* The mutant takes the bytes of a cut-off last record for the end of file.
TFRecordNext_TailIsEof(file, pos) ==
    IF pos < Len(file.recs) THEN Returned(file.recs[pos + 1])
    ELSE [st |-> "end"]

\* tf.data.TFRecordDataset: the record after the first pos ones, the end of
\* the file, or DataLossError on the bytes of a cut-off record.
TFRecordNext(file, pos) ==
    IF pos < Len(file.recs) THEN Returned(file.recs[pos + 1])
    ELSE IF file.partial THEN Raised("DataLossError")
    ELSE [st |-> "end"]

\* The mutant hands on any finished element (deterministic=False).
MapOutputReady_AnyOrder(q) ==
    {i \in 1 .. Len(q) : q[i].st = "done"}

\* dataset.map(..., num_parallel_calls=AUTOTUNE) is deterministic by default:
\* only the oldest element in flight is handed on, once its call is done.
MapOutputReady(q) ==
    {i \in 1 .. Len(q) : i = 1 /\ q[i].st = "done"}

RemoveAt(q, i) == SubSeq(q, 1, i - 1) \o SubSeq(q, i + 1, Len(q))

Batch(elems) == [kind |-> "batch", elems |-> elems]

\* The mutant drops a short last batch (drop_remainder=True).
FinalBatch_DropRemainder(buf) == <<>>

\* dataset.batch(batch_size) at the end of its input: what is left is a batch.
FinalBatch(buf) == IF buf = <<>> THEN <<>> ELSE <<Batch(buf)>>

(***************************************************************************)
(* Rows of the table                                                       *)
(***************************************************************************)
MaxTableRows == 7
MaxBatch     == 2

Row(f, e) == [fen |-> f, evaluation |-> e]

Pawns8  == <<"p","p","p","p","p","p","p","p">>
PawnsW8 == <<"P","P","P","P","P","P","P","P">>
Back8   == <<"r","n","b","q","k","b","n","r">>
BackW8  == <<"R","N","B","Q","K","B","N","R">>
Empty4  == <<"8","/","8","/","8","/","8">>
Open4   == <<"8","/","4","p","3","/","4","P","3","/","8">>
Knight4 == <<"2","n","5","/","8","/","8","/","3","Q","4">>

FieldsA == [turn |-> "w", castling |-> <<"K","Q","k","q">>, ep |-> <<"-">>]
FieldsB == [turn |-> "b", castling |-> <<"K","q">>, ep |-> <<"e","3">>]
FieldsC == [turn |-> "w", castling |-> <<"-">>, ep |-> <<"-">>]

Fen2 == MakeFen(Join(<<Back8, Pawns8, Open4, PawnsW8, BackW8>>, "/"), FieldsB)
Fen3 == MakeFen(Join(<< <<"4","k","3">>, <<"p","2","p","3","p">>, Knight4,
                        <<"8">>, <<"R","3","K","2","R">> >>, "/"), FieldsA)
Fen4 == MakeFen(Join(<< <<"r","3","k","2","r">>, Pawns8, Empty4, PawnsW8,
                        <<"R","3","K","2","R">> >>, "/"), FieldsA)
Fen5 == MakeFen(Join(<< <<"4","k","3">>, Pawns8, Empty4, <<"8">>, BackW8 >>,
                     "/"), FieldsC)
Fen6 == MakeFen(Join(<<Back8, <<"p","2","p","3","p">>, Knight4, PawnsW8,
                       BackW8>>, "/"), FieldsB)
Fen7 == MakeFen(Join(<< <<"r","3","k","2","r">>, <<"p","2","p","3","p">>, Open4,
                        <<"8">>, BackW8 >>, "/"), FieldsC)
Fen8 == MakeFen(Join(<<Back8, Pawns8, Knight4, PawnsW8, BackW8>>, "/"), FieldsA)

\* rnbqkbnr/pppppppp/44/8/8/8/PPPPPPPP/RNBQKBNR w KQkq -
BadFen ==
    [StartFen EXCEPT !.board =
        Join(<<Back8, Pawns8, <<"4","4","/","8","/","8","/","8">>, PawnsW8,
               BackW8>>, "/")]

Pools ==
    { << Row(StartFen, Eval_0_3), Row(Fen2, Eval_1_0), Row(Fen3, Eval_m0_7),
         Row(Fen4, Eval_0_5), Row(Fen5, Eval_0_019), Row(Fen6, Eval_m0_25),
         Row(Fen7, Eval_m1_0), Row(Fen8, Eval_0_3) >>,
      << Row(StartFen, Eval_0_3), Row(BadFen, Eval_0_5), Row(Fen2, Eval_1_0),
         Row(Fen3, Eval_m0_7) >>,
      << Row(StartFen, Eval_0_3), Row(Fen2, Eval_1_0), Row(Fen3, Eval_m0_7),
         Row(BadFen, Eval_0_5) >> }

\* The table holds the first n rows of a pool (fen is a UNIQUE column).
Tables ==
    UNION { { SubSeq(pool, 1, n) : n \in 0 .. Min(Len(pool), MaxTableRows) } :
              pool \in Pools }

(***************************************************************************)
(* Record files found on disk when a main starts: files of an earlier run  *)
(* of the same code, and files written with other field lengths (the       *)
(* 13-plane board of encode_fen_string, a shorter extra vector, a longer   *)
(* label).                                                                 *)
(***************************************************************************)
\* flatten() of the 8 x 8 x 13 tensor of encode_fen_string.
Flatten13(t) ==
    [i \in 1 .. 832 |->
        t[(i - 1) \div 104 + 1][((i - 1) % 104) \div 13 + 1][((i - 1) % 13) + 1]]

GoodRecord == Example(Row(StartFen, Eval_0_5))

Board13Record ==
    [GoodRecord EXCEPT !.board = Flatten13(encode_fen_string(StartFen).val)]

ShortExtraRecord == [GoodRecord EXCEPT !.extra = SubSeq(@, 1, 5)]

LongLabelRecord == [GoodRecord EXCEPT !.label = @ \o @]

NoLabelRecord == [GoodRecord EXCEPT !.label = <<>>]

FileOf(recs) == [exists |-> TRUE, recs |-> recs, partial |-> FALSE]

FilesOnDisk ==
    { [train |-> FileOf(recs), val |-> FileOf(<<GoodRecord>>)] :
        recs \in { <<GoodRecord, GoodRecord>>,
                   <<GoodRecord, Board13Record>>,
                   <<Board13Record, GoodRecord>>,
                   <<GoodRecord, GoodRecord, ShortExtraRecord>>,
                   <<LongLabelRecord>>,
                   <<GoodRecord, NoLabelRecord>> } }

(***************************************************************************)
(* Spec: runs of a training main (v8, v9, v10): materialise the record      *)
(* files when one is missing, then iterate both datasets once.  A run may   *)
(* be stopped from outside while a record file is being written, and a      *)
(* main may be started again after a run has ended.                         *)
(***************************************************************************)
NoDfs == [train |-> <<>>, val |-> <<>>]

StagesIdle ==
    /\ rpos = 0
    /\ srcdone = FALSE
    /\ inflight = <<>>
    /\ batchbuf = <<>>
    /\ pdone = FALSE
    /\ prefetched = <<>>

Init ==
    /\ fen = StartFen
    /\ EncIdle
    /\ SplitIdle
    /\ batch_size \in 1 .. MaxBatch
    /\ pc = "start"
    /\ dfs = NoDfs
    /\ \/ /\ table \in Tables
          /\ files = [f \in FileNames |-> NoFile]
       \/ /\ table = <<>>
          /\ files \in FilesOnDisk
    /\ wstatus = [f \in FileNames |-> "none"]
    /\ written_from = [f \in FileNames |-> <<>>]
    /\ ReaderIdle
    /\ OtherIdle

\* if not os.path.exists(TRAIN) or not os.path.exists(VAL): fetch.
CheckFiles ==
    /\ pc = "start"
    /\ IF ~files["train"].exists \/ ~files["val"].exists
       THEN /\ pc' = "write_train"
            /\ dfs' = fetch_data_from_db(table)
       ELSE /\ pc' = "datasets"
            /\ dfs' = NoDfs
    /\ UNCHANGED <<encVars, splitVars, otherVars, inputVars, fileVars, readerVars>>

WritingOf(f) == IF f = "train" THEN "write_train" ELSE "write_val"

AfterWriting(f) == IF f = "train" THEN "write_val" ELSE "datasets"

\* create_tfrecord_file(train_df, TRAIN) / create_tfrecord_file(val_df, VAL).
CreateRecordFile(f) ==
    /\ pc = WritingOf(f)
    /\ LET r == create_tfrecord_file(dfs[f])
       IN  /\ files' = [files EXCEPT ![f] = r.file]
           /\ wstatus' = [wstatus EXCEPT ![f] = r.status]
           /\ pc' = IF r.status = "complete" THEN AfterWriting(f) ELSE "raised"
    /\ written_from' = [written_from EXCEPT ![f] = dfs[f]]
    /\ dfs' = IF pc' = "datasets" THEN NoDfs ELSE dfs
    /\ UNCHANGED <<encVars, splitVars, otherVars, inputVars, readerVars>>

\* The process is stopped while create_tfrecord_file is writing f.
InterruptWrite(f) ==
    /\ pc = WritingOf(f)
    /\ \E fl \in InterruptedFiles(dfs[f]) :
          files' = [files EXCEPT ![f] = fl]
    /\ wstatus' = [wstatus EXCEPT ![f] = "killed"]
    /\ written_from' = [written_from EXCEPT ![f] = dfs[f]]
    /\ pc' = "killed"
    /\ UNCHANGED <<encVars, splitVars, otherVars, inputVars, dfs, readerVars>>

\* create_dataset for both files; model.fit starts on the training dataset.
CreateDatasets ==
    /\ pc = "datasets"
    /\ pc' = "fit_train"
    /\ rstatus' = [rstatus EXCEPT !["train"] = "running"]
    /\ UNCHANGED <<encVars, splitVars, otherVars, inputVars, dfs, fileVars, stageVars,
                   consumed>>

Reading == IF pc = "fit_train" THEN "train" ELSE "val"

\* The TFRecordDataset hands the next record to a free map call.
ReadRecord ==
    /\ pc \in {"fit_train", "fit_val"}
    /\ ~srcdone
    /\ Len(inflight) < MapParallelism
    /\ LET nxt == TFRecordNext(files[Reading], rpos)
       IN  IF nxt.st = "returned"
           THEN /\ inflight' = Append(inflight, [st |-> "pending", rec |-> nxt.val])
                /\ rpos' = rpos + 1
                /\ UNCHANGED srcdone
           ELSE IF nxt.st = "raised"
           THEN /\ inflight' = Append(inflight, [st |-> "done", res |-> nxt])
                /\ srcdone' = TRUE
                /\ UNCHANGED rpos
           ELSE /\ srcdone' = TRUE
                /\ UNCHANGED <<rpos, inflight>>
    /\ UNCHANGED <<encVars, splitVars, otherVars, inputVars, mainVars, fileVars, batchbuf,
                   pdone, prefetched, consumed, rstatus>>

\* One of the parallel _parse_function calls finishes.
ParseRecord ==
    /\ pc \in {"fit_train", "fit_val"}
    /\ \E i \in 1 .. Len(inflight) :
          /\ inflight[i].st = "pending"
          /\ inflight' = [inflight EXCEPT
                             ![i] = [st |-> "done",
                                     res |-> _parse_function(inflight[i].rec)]]
    /\ UNCHANGED <<encVars, splitVars, otherVars, inputVars, mainVars, fileVars, rpos,
                   srcdone, batchbuf, pdone, prefetched, consumed, rstatus>>

\* The batch stage takes the next element of the map; a full batch goes to
\* the prefetch buffer; an element that is an error ends the dataset with
\* that error and the elements gathered so far are dropped.
BatchTake ==
    /\ pc \in {"fit_train", "fit_val"}
    /\ ~pdone
    /\ Len(prefetched) < PrefetchDepth
    /\ \E i \in MapOutputReady(inflight) :
          /\ inflight' = RemoveAt(inflight, i)
          /\ IF inflight[i].res.st = "raised"
             THEN /\ prefetched' = Append(prefetched,
                                     [kind |-> "error", exc |-> inflight[i].res.exc])
                  /\ batchbuf' = <<>>
                  /\ pdone' = TRUE
             ELSE LET buf == Append(batchbuf, inflight[i].res.val)
                  IN  /\ pdone' = FALSE
                      /\ IF Len(buf) = batch_size
                         THEN /\ prefetched' = Append(prefetched, Batch(buf))
                              /\ batchbuf' = <<>>
                         ELSE /\ batchbuf' = buf
                              /\ UNCHANGED prefetched
    /\ UNCHANGED <<encVars, splitVars, otherVars, inputVars, mainVars, fileVars, rpos,
                   srcdone, consumed, rstatus>>

\* The input of the batch stage is exhausted.
BatchEnd ==
    /\ pc \in {"fit_train", "fit_val"}
    /\ ~pdone
    /\ srcdone
    /\ inflight = <<>>
    /\ Len(prefetched) < PrefetchDepth
    /\ prefetched' = prefetched \o FinalBatch(batchbuf) \o <<[kind |-> "end"]>>
    /\ batchbuf' = <<>>
    /\ pdone' = TRUE
    /\ UNCHANGED <<encVars, splitVars, otherVars, inputVars, mainVars, fileVars, rpos,
                   srcdone, inflight, consumed, rstatus>>

\* model.fit takes the next batch; at the end of the training dataset it goes
\* on to the validation dataset; an error ends the run.
Consume ==
    /\ pc \in {"fit_train", "fit_val"}
    /\ prefetched # <<>>
    /\ LET h == Head(prefetched)
           f == Reading
       IN  IF h.kind = "batch"
           THEN /\ consumed' = [consumed EXCEPT ![f] = Append(@, h.elems)]
                /\ prefetched' = Tail(prefetched)
                /\ UNCHANGED <<pc, rstatus, rpos, srcdone, inflight, batchbuf, pdone>>
           ELSE /\ rpos' = 0
                /\ srcdone' = FALSE
                /\ inflight' = <<>>
                /\ batchbuf' = <<>>
                /\ pdone' = FALSE
                /\ prefetched' = <<>>
                /\ UNCHANGED consumed
                /\ IF h.kind = "error"
                   THEN /\ rstatus' = [rstatus EXCEPT ![f] = "error"]
                        /\ pc' = "raised"
                   ELSE IF f = "train"
                   THEN /\ rstatus' = [rstatus EXCEPT !["train"] = "end",
                                                      !["val"] = "running"]
                        /\ pc' = "fit_val"
                   ELSE /\ rstatus' = [rstatus EXCEPT ![f] = "end"]
                        /\ pc' = "done"
    /\ UNCHANGED <<encVars, splitVars, otherVars, inputVars, dfs, fileVars>>

\* A main is started again after the previous run ended.
Restart ==
    /\ pc \in {"done", "raised", "killed"}
    /\ pc' = "start"
    /\ dfs' = NoDfs
    /\ consumed' = [f \in FileNames |-> <<>>]
    /\ rstatus' = [f \in FileNames |-> "none"]
    /\ UNCHANGED <<encVars, splitVars, otherVars, inputVars, fileVars, stageVars>>

Next ==
    \/ CheckFiles
    \/ \E f \in FileNames : CreateRecordFile(f)
    \/ \E f \in FileNames : InterruptWrite(f)
    \/ CreateDatasets
    \/ ReadRecord
    \/ ParseRecord
    \/ BatchTake
    \/ BatchEnd
    \/ Consume
    \/ Restart

Spec == Init /\ [][Next]_vars

(***************************************************************************)
(* Claims about the record files and the streaming reader (under Spec)     *)
(***************************************************************************)
RECURSIVE Concat(_)
Concat(batches) ==
    IF batches = <<>> THEN <<>> ELSE Head(batches) \o Concat(Tail(batches))

\* The batches the dataset of f has produced so far, in order: those the
\* training loop received, then those waiting in the prefetch buffer.
Emitted(f) ==
    consumed[f] \o
    (IF pc \in {"fit_train", "fit_val"} /\ Reading = f
     THEN [i \in 1 .. Len(SelectSeq(prefetched, LAMBDA b : b.kind = "batch")) |->
              SelectSeq(prefetched, LAMBDA b : b.kind = "batch")[i].elems]
     ELSE <<>>)

\* What encoding row in memory gives, with the label as the row holds it.
DirectEncoding(row) ==
    [board_input |-> encode_fen_to_bitboard(row.fen).val,
     extra_input |-> encode_extra_features(row.fen).val,
     label       |-> row.evaluation]

C5_InterruptedFileNotReused ==
    pc \in {"fit_train", "fit_val", "done"} =>
        \A f \in FileNames :
            wstatus[f] = "killed" =>
                /\ Len(files[f].recs) = Len(written_from[f])
                /\ ~files[f].partial

\* C6: a malformed position string affects only its own row: whenever
\* create_tfrecord_file has run to its end the file is complete and holds the
\* records of all well-formed rows.
C6_RowErrorIsLocal ==
    \A f \in FileNames :
        wstatus[f] \in {"complete", "raised"} =>
            LET good == SelectSeq(written_from[f], LAMBDA r : ValidFen(r.fen))
            IN  /\ wstatus[f] = "complete"
                /\ files[f].recs = [i \in 1 .. Len(good) |-> Example(good[i])]

\* C8: the batches produced so far, concatenated in the order they were
\* produced, are the first records of the file in the order they were
\* written, whatever order the parallel _parse_function calls finish in.
C8_FileOrderKept ==
    \A f \in FileNames :
        LET got == Concat(Emitted(f))
        IN  /\ Len(got) <= Len(files[f].recs)
            /\ \A i \in 1 .. Len(got) :
                  Returned(got[i]) = _parse_function(files[f].recs[i])

\* C8 witness: a batch has been produced while the second of two parallel
\* calls has finished before the first.
C8_Witness ==
    /\ pc = "fit_train"
    /\ Len(Emitted("train")) >= 1
    /\ Len(inflight) = 2
    /\ inflight[1].st = "pending"
    /\ inflight[2].st = "done"

C10_TruncatedFileFails ==
    \A f \in FileNames :
        files[f].partial =>
            /\ rstatus[f] # "end"
            /\ \A i \in 1 .. Len(Concat(Emitted(f))) :
                  \E j \in 1 .. Len(files[f].recs) :
                      Concat(Emitted(f))[i] = _parse_function(files[f].recs[j]).val

\* C11: a record whose board field does not hold 8*8*12 values, whose
\* extra field does not hold 6 or whose label field does not hold 1 never
\* reaches a batch, reshaped or not: the batches hold only the records before
\* the first such record, and the read does not end normally.
WellShaped(rec) ==
    Len(rec.board) = 8 * 8 * 12 /\ Len(rec.extra) = 6 /\ Len(rec.label) = 1

C11_ShapeMismatchFails ==
    \A f \in FileNames :
        \A j \in 1 .. Len(files[f].recs) :
            ~WellShaped(files[f].recs[j]) =>
                /\ Len(Concat(Emitted(f))) < j
                /\ rstatus[f] # "end"
                /\ (pc \in {"fit_val", "done"} => f # "train")

\* C11 witness: a training file whose second record holds a 13-plane board
\* (832 values) was read in batches of one: the first record was delivered
\* and the read ended in InvalidArgumentError.
C11_Witness ==
    /\ files["train"].recs = <<GoodRecord, Board13Record>>
    /\ batch_size = 1
    /\ Len(consumed["train"]) = 1
    /\ rstatus["train"] = "error"
    /\ pc = "raised"

\* The field lengths of every record create_tfrecord_file has written to f.
WrittenFieldLengths(f, nboard) ==
    wstatus[f] # "none" =>
        \A i \in 1 .. Len(files[f].recs) :
            LET rec == files[f].recs[i]
            IN  /\ DOMAIN rec = {"board", "extra", "label"}
                /\ Len(rec.board) = nboard
                /\ \A k \in 1 .. Len(rec.board) : rec.board[k] \in {0, 1}
                /\ Len(rec.extra) = 6
                /\ \A k \in 1 .. 6 : rec.extra[k] \in {0, 1}
                /\ Len(rec.label) = 1
                /\ Len(rec.label[1].man) = SingleBits

C10_Witness ==
    /\ files["val"].partial
    /\ Len(files["val"].recs) = 1
    /\ batch_size = 2
    /\ rstatus["val"] = "error"
    /\ consumed["val"] = <<>>
    /\ pc = "raised"

(***************************************************************************)
(* SpecDrivers: the scripts that bind the reader's tensors to a model:     *)
(* the training mains v8, v9 and v10 (create_dataset, build the model,     *)
(* model.fit) and convert_to_onnx (load the v10 model, convert it with an  *)
(* input signature).                                                       *)
(***************************************************************************)
Drivers == {"v8", "v9", "v10"}

\* The shape of a tensor held as nested functions.
Shape3(t) ==
    LET d1 == DOMAIN t
        t1 == t[CHOOSE i \in d1 : TRUE]
        d2 == DOMAIN t1
        t2 == t1[CHOOSE i \in d2 : TRUE]
    IN  <<Cardinality(d1), Cardinality(d2), Cardinality(DOMAIN t2)>>

\* The shapes (without the batch axis) of the features _parse_function
\* returns for a record.
ElementSpec(rec) ==
    LET r == _parse_function(rec)
    IN  IF r.st = "raised" THEN r
        ELSE Returned([board_input |-> Shape3(r.val.board_input),
                       extra_input |-> <<Len(r.val.extra_input)>>])

\* Input(shape=..., name='board_input') / Input(shape=(6,), name='extra_input')
\* of build_optimized_model (v8) and build_model (v9, v10).
ModelInputs(d) ==
    [board_input |-> IF d = "v10" THEN <<8, 8, 12>> ELSE <<8, 8, 13>>,
     extra_input |-> <<6>>]

\* The input signature convert_to_onnx.py hands to tf2onnx.
OnnxSignature == [board_input |-> <<8, 8, 12>>, extra_input |-> <<6>>]

SampleRecords ==
    { Example(Row(f, e)) :
        f \in {StartFen, Fen2, Fen3, Fen4, Fen5, Fen6, Fen7, Fen8},
        e \in {Eval_0_3, Eval_1_0, Eval_m0_7} }

InitDrivers ==
    /\ fen = StartFen
    /\ EncIdle
    /\ SplitIdle
    /\ PipeIdle
    /\ driver \in Drivers \cup {"onnx"}
    /\ stage = "off"
    /\ record \in SampleRecords
    /\ element_spec = NotCalled
    /\ model_inputs = NotCalled
    /\ NormIdle
    /\ EvalIdle
    /\ ScaleIdle
    /\ LaterIdle

\* The imports at the top of the script: v8 imports fetch_data_lichess, which
\* training_utils does not define.
LoadScript ==
    /\ stage = "off"
    /\ stage' = IF driver = "v8" THEN "import_error" ELSE "main"
    /\ UNCHANGED <<encVars, splitVars, pipeVars, laterVars, normVars, evalVars, scaleVars, driver, record, element_spec,
                   model_inputs>>

\* train_dataset = create_dataset(...): the dataset's elements.
CreateDatasetElements ==
    /\ stage = "main"
    /\ driver \in Drivers
    /\ element_spec' = ElementSpec(record)
    /\ stage' = "datasets"
    /\ UNCHANGED <<encVars, splitVars, pipeVars, laterVars, normVars, evalVars, scaleVars, driver, record, model_inputs>>

\* model = build_model().
BuildModel ==
    /\ stage = "datasets"
    /\ model_inputs' = Returned(ModelInputs(driver))
    /\ stage' = "built"
    /\ UNCHANGED <<encVars, splitVars, pipeVars, laterVars, normVars, evalVars, scaleVars, driver, record, element_spec>>

\* model.fit(train_dataset, ...): the first step binds the element's tensors
\* to the model's inputs by name and raises ValueError on another shape.
Fit ==
    /\ stage = "built"
    /\ driver \in Drivers
    /\ stage' = IF element_spec = model_inputs THEN "training" ELSE "value_error"
    /\ UNCHANGED <<encVars, splitVars, pipeVars, laterVars, normVars, evalVars, scaleVars, driver, record, element_spec,
                   model_inputs>>

\* convert_to_onnx: model = load_model('../model/v10/v10_model.keras').
LoadModel ==
    /\ stage = "main"
    /\ driver = "onnx"
    /\ model_inputs' = Returned(ModelInputs("v10"))
    /\ stage' = "built"
    /\ UNCHANGED <<encVars, splitVars, pipeVars, laterVars, normVars, evalVars, scaleVars, driver, record, element_spec>>

\* convert_to_onnx: tf2onnx.convert.from_keras(model, input_signature=spec).
ConvertToOnnx ==
    /\ stage = "built"
    /\ driver = "onnx"
    /\ element_spec' = Returned(OnnxSignature)
    /\ stage' = IF OnnxSignature = model_inputs.val THEN "exported"
                ELSE "value_error"
    /\ UNCHANGED <<encVars, splitVars, pipeVars, laterVars, normVars, evalVars, scaleVars, driver, record, model_inputs>>

NextDrivers ==
    \/ LoadScript
    \/ CreateDatasetElements
    \/ BuildModel
    \/ Fit
    \/ LoadModel
    \/ ConvertToOnnx

SpecDrivers == InitDrivers /\ [][NextDrivers]_vars

\* C13: in every script, once it has both the tensors it feeds and the model,
\* the board tensor under 'board_input' has the shape of the model's
\* 'board_input' input and the extra tensor under 'extra_input' has the
\* length 6 of the model's 'extra_input' input.
C13_ReaderMatchesModel ==
    (element_spec.st = "returned" /\ model_inputs.st = "returned") =>
        /\ element_spec.val.board_input = model_inputs.val.board_input
        /\ element_spec.val.extra_input = model_inputs.val.extra_input
        /\ element_spec.val.extra_input = <<6>>

(***************************************************************************)
(* SpecNorm: process_pgn_files.  EVAL_REGEX captures a non-empty string    *)
(* over '#', digits, '.' and '-' from a move comment; normalize_evaluation *)
(* turns it into a label or None, and the extraction loop gathers a row    *)
(* for every label.  A number is held as a signed decimal: m / 10^d,       *)
(* negative when neg; the float the code holds is the binary64 value       *)
(* nearest to it.                                                          *)
(***************************************************************************)
MaxTokenLen == 5

TokenChars == {"#", "-", ".", "0", "1", "2", "3", "5"}

Digits10 == {"0", "1", "2", "3", "4", "5", "6", "7", "8", "9"}

DigitValue(c) ==
    CASE c = "0" -> 0 [] c = "1" -> 1 [] c = "2" -> 2 [] c = "3" -> 3
      [] c = "4" -> 4 [] c = "5" -> 5 [] c = "6" -> 6 [] c = "7" -> 7
      [] c = "8" -> 8 [] c = "9" -> 9

RECURSIVE Pow10(_)
Pow10(n) == IF n = 0 THEN 1 ELSE 10 * Pow10(n - 1)

\* The value of a string of digits (0 for the empty string).
RECURSIVE DigitsValue(_)
DigitsValue(s) ==
    IF s = <<>> THEN 0
    ELSE DigitsValue(SubSeq(s, 1, Len(s) - 1)) * 10 + DigitValue(s[Len(s)])

AllDigits(s) == \A i \in 1 .. Len(s) : s[i] \in Digits10

None == [kind |-> "None"]

Float(neg, m, d) == [kind |-> "float", neg |-> neg, m |-> m, d |-> d]

ValueError == [kind |-> "ValueError"]

\* The mutant drops the sign.
PyInt_IgnoresSign(s) ==
    LET neg  == s # <<>> /\ s[1] = "-"
        body == IF neg THEN Tail(s) ELSE s
    IN  IF body = <<>> \/ ~AllDigits(body) THEN ValueError
        ELSE [kind |-> "int", neg |-> FALSE, n |-> DigitsValue(body)]

\* int(s) on a string over the token characters: an optional '-' and at
\* least one digit.
PyInt(s) ==
    LET neg  == s # <<>> /\ s[1] = "-"
        body == IF neg THEN Tail(s) ELSE s
    IN  IF body = <<>> \/ ~AllDigits(body) THEN ValueError
        ELSE [kind |-> "int", neg |-> neg, n |-> DigitsValue(body)]

\* The mutant reads a string that is no number as 0.
PyFloat_ZeroOnError(s) ==
    LET neg  == s # <<>> /\ s[1] = "-"
        body == IF neg THEN Tail(s) ELSE s
        dots == {i \in 1 .. Len(body) : body[i] = "."}
        digs == RemoveChar(body, ".")
    IN  IF digs = <<>> \/ ~AllDigits(digs) \/ Cardinality(dots) > 1
        THEN Float(FALSE, 0, 0)
        ELSE Float(neg, DigitsValue(digs),
                   IF dots = {} THEN 0
                   ELSE Len(body) - (CHOOSE i \in dots : TRUE))

\* float(s) on a string over the token characters: an optional '-', digits
\* with at most one '.', and at least one digit.
PyFloat(s) ==
    LET neg  == s # <<>> /\ s[1] = "-"
        body == IF neg THEN Tail(s) ELSE s
        dots == {i \in 1 .. Len(body) : body[i] = "."}
        digs == RemoveChar(body, ".")
    IN  IF digs = <<>> \/ ~AllDigits(digs) \/ Cardinality(dots) > 1
        THEN ValueError
        ELSE Float(neg, DigitsValue(digs),
                   IF dots = {} THEN 0
                   ELSE Len(body) - (CHOOSE i \in dots : TRUE))

\* x <= y for signed decimals.
FloatLeq(x, y) ==
    LET dd == IF x.d > y.d THEN x.d ELSE y.d
        xv == (IF x.neg THEN -1 ELSE 1) * x.m * Pow10(dd - x.d)
        yv == (IF y.neg THEN -1 ELSE 1) * y.m * Pow10(dd - y.d)
    IN  xv <= yv

\* min(a, b) and max(a, b) of Python: the first argument unless the second
\* is smaller (larger).
PyMin(a, b) == IF FloatLeq(a, b) THEN a ELSE b

PyMax(a, b) == IF FloatLeq(b, a) THEN a ELSE b

\* x / 10.0.
DivideBy10(x) == Float(x.neg, x.m, x.d + 1)

\* The mutant divides without clamping.
normalize_evaluation_NoClamp(token) ==
    IF token # <<>> /\ token[1] = "#"
    THEN LET mate_moves == PyInt(Tail(token))
         IN  IF mate_moves = ValueError THEN None
             ELSE IF ~mate_moves.neg /\ mate_moves.n > 0
             THEN Float(FALSE, 1, 0) ELSE Float(TRUE, 1, 0)
    ELSE LET value == PyFloat(token)
         IN  IF value = ValueError THEN None ELSE DivideBy10(value)

normalize_evaluation(token) ==
    LET max_eval == Float(FALSE, 10, 0)
    IN  IF token # <<>> /\ token[1] = "#"
        THEN LET mate_moves == PyInt(Tail(token))
             IN  IF mate_moves = ValueError THEN None
                 ELSE IF ~mate_moves.neg /\ mate_moves.n > 0
                 THEN Float(FALSE, 1, 0) ELSE Float(TRUE, 1, 0)
        ELSE LET value == PyFloat(token)
             IN  IF value = ValueError THEN None
                 ELSE DivideBy10(PyMax(Float(TRUE, 10, 0),
                                       PyMin(max_eval, value)))

\* The strings EVAL_REGEX can capture, up to MaxTokenLen characters.
Tokens ==
    UNION { [1 .. n -> TokenChars] : n \in 1 .. MaxTokenLen }

InitNorm ==
    /\ fen = StartFen
    /\ EncIdle
    /\ SplitIdle
    /\ PipeIdle
    /\ DriversIdle
    /\ eval_str \in Tokens
    /\ normalized_eval = NotCalled
    /\ position_list = <<>>
    /\ EvalIdle
    /\ ScaleIdle
    /\ LaterIdle

\* extract_positions_and_evaluations_from_pgn_file, the loop body for one
\* sampled node: normalize the captured token, skip the node on None, gather
\* the row otherwise.
ExtractNode ==
    /\ normalized_eval = NotCalled
    /\ LET r == normalize_evaluation(eval_str)
       IN  /\ normalized_eval' = Returned(r)
           /\ position_list' = IF r = None THEN position_list
                               ELSE Append(position_list,
                                           [fen |-> fen, evaluation |-> r])
    /\ UNCHANGED <<encVars, splitVars, pipeVars, laterVars, driverVars, evalVars, scaleVars, eval_str>>

NextNorm == ExtractNode

SpecNorm == InitNorm /\ [][NextNorm]_vars

(***************************************************************************)
(* SpecEval: evaluate_positions.  One position of chess_positions goes     *)
(* through evaluate_position and update_positions_in_db, and the query of  *)
(* fetch_data then selects the rows for training.  The engine's answer is  *)
(* a score relative to the side to move (centipawns or a mate distance)    *)
(* or no score, and a principal variation or none; starting the engine or  *)
(* parsing the position may raise.                                         *)
(***************************************************************************)
MaxCp     == 4
MaxMate   == 3
MateScore == 10000

Cp(c) == [kind |-> "cp", v |-> c]

\* Mate(n): mate in n for the side the score is for when n > 0, that side is
\* mated in -n when n < 0, and is mated already when n = 0.
Mate(n) == [kind |-> "mate", v |-> n]

MateGiven == [kind |-> "mate_given"]

RelativeScores ==
    {Cp(c) : c \in -MaxCp .. MaxCp} \cup {Mate(n) : n \in -MaxMate .. MaxMate}
        \cup {MateGiven}

EngineInfos ==
    { [kind |-> "info", has_score |-> TRUE, relative |-> sc, turn |-> t,
       has_pv |-> pv] :
          sc \in RelativeScores, t \in {"w", "b"}, pv \in BOOLEAN }
    \cup
    { [kind |-> "info", has_score |-> FALSE, relative |-> Cp(0), turn |-> t,
       has_pv |-> pv] : t \in {"w", "b"}, pv \in BOOLEAN }
    \cup { [kind |-> "exception"] }

\* Score.__neg__.
Negate(sc) ==
    CASE sc.kind = "cp" -> Cp(-sc.v)
      [] sc.kind = "mate" -> IF sc.v = 0 THEN MateGiven ELSE Mate(-sc.v)
      [] sc.kind = "mate_given" -> Mate(0)

\* PovScore.pov(color).
Pov(i, color) == IF i.turn = color THEN i.relative ELSE Negate(i.relative)

\* Score.score(mate_score=...).
ScoreValue(sc, mate_score) ==
    CASE sc.kind = "cp" -> sc.v
      [] sc.kind = "mate" -> IF sc.v > 0 THEN mate_score - sc.v
                             ELSE -mate_score - sc.v
      [] sc.kind = "mate_given" -> mate_score

\* evaluate_position: (score, best_move) of the returned triple; None is Null.
evaluate_position(i) ==
    IF i.kind = "exception" THEN [score |-> Null, best_move |-> Null]
    ELSE IF i.has_score
    THEN [score |-> Value(ScoreValue(Pov(i, "b"), MateScore)),
          best_move |-> IF i.has_pv THEN Value("pv[0].uci()") ELSE Null]
    ELSE [score |-> Value(0), best_move |-> Null]

InitEval ==
    /\ fen = StartFen
    /\ EncIdle
    /\ SplitIdle
    /\ PipeIdle
    /\ DriversIdle
    /\ NormIdle
    /\ ScaleIdle
    /\ LaterIdle
    /\ info \in EngineInfos
    /\ evaluated = NotCalled
    /\ db_row = [black_score |-> Null, best_move |-> Null]
    /\ train_rows = NotCalled

\* pool.map(evaluate_position, positions) for the position.
EvaluatePosition ==
    /\ evaluated = NotCalled
    /\ evaluated' = Returned(evaluate_position(info))
    /\ UNCHANGED <<encVars, splitVars, pipeVars, laterVars, driverVars, normVars, scaleVars, info,
                   db_row, train_rows>>

\* update_positions_in_db: the row is updated unless the score is None.
UpdatePositionsInDb ==
    /\ evaluated # NotCalled
    /\ train_rows = NotCalled
    /\ db_row = [black_score |-> Null, best_move |-> Null]
    /\ evaluated.val.score # Null
    /\ db_row' = [black_score |-> evaluated.val.score,
                  best_move |-> evaluated.val.best_move]
    /\ UNCHANGED <<encVars, splitVars, pipeVars, laterVars, driverVars, normVars, scaleVars, info,
                   evaluated, train_rows>>

\* fetch_data: SELECT * FROM chess_positions WHERE best_move IS NOT NULL AND
\* black_score IS NOT NULL.
FetchTrainRows ==
    /\ train_rows = NotCalled
    /\ train_rows' = Returned(IF db_row.best_move # Null /\ db_row.black_score # Null
                              THEN <<db_row>> ELSE <<>>)
    /\ UNCHANGED <<encVars, splitVars, pipeVars, laterVars, driverVars, normVars, scaleVars, info,
                   evaluated, db_row>>

NextEval ==
    \/ EvaluatePosition
    \/ UpdatePositionsInDb
    \/ FetchTrainRows

SpecEval == InitEval /\ [][NextEval]_vars

(***************************************************************************)
(* Claims about normalize_evaluation (checked under SpecNorm)              *)
(***************************************************************************)
\* A signed integer as written: an optional '-' and one or more digits.
SignedInteger(s) ==
    \E k \in 0 .. 1 :
        /\ Len(s) > k
        /\ k = 1 => s[1] = "-"
        /\ \A i \in k + 1 .. Len(s) : s[i] \in Digits10

\* A signed decimal as written: an optional '-', then digits, optionally
\* with one '.' before, between or after them.
SignedDecimal(s) ==
    \E k \in 0 .. 1 : \E p \in k .. Len(s) :
        /\ k = 1 => (Len(s) >= 1 /\ s[1] = "-")
        /\ \A i \in k + 1 .. p : s[i] \in Digits10
        /\ p < Len(s) => (s[p + 1] = "." /\ \A i \in p + 2 .. Len(s) : s[i] \in Digits10)
        /\ \E i \in k + 1 .. Len(s) : s[i] \in Digits10

MateToken(s) == s # <<>> /\ s[1] = "#" /\ SignedInteger(Tail(s))

FloatEq(x, y) == FloatLeq(x, y) /\ FloatLeq(y, x)

One == Float(FALSE, 1, 0)

MinusOne == Float(TRUE, 1, 0)

\* C15: a numeric token v gives max(-10, min(10, v)) / 10: a value in
\* [-1, 1] that is v / 10 when v lies in [-10, 10], 1.0 above and -1.0 below;
\* 25.0 gives exactly 1.0, -25.0 exactly -1.0 and 3.0 gives 0.3.
C15_ClampLaw ==
    (SignedDecimal(eval_str) /\ normalized_eval # NotCalled) =>
        LET r == normalized_eval.val
            v == PyFloat(eval_str)
        IN  /\ r.kind = "float"
            /\ FloatLeq(MinusOne, r) /\ FloatLeq(r, One)
            /\ FloatLeq(Float(FALSE, 10, 0), v) => FloatEq(r, One)
            /\ FloatLeq(v, Float(TRUE, 10, 0)) => FloatEq(r, MinusOne)
            /\ (FloatLeq(Float(TRUE, 10, 0), v) /\ FloatLeq(v, Float(FALSE, 10, 0)))
                  => FloatEq(Float(r.neg, r.m * 10, r.d), v)
            /\ eval_str = <<"2", "5", ".", "0">> => FloatEq(r, One)
            /\ eval_str = <<"-", "2", "5", ".", "0">> => FloatEq(r, MinusOne)
            /\ eval_str = <<"3", ".", "0">> => FloatEq(r, Float(FALSE, 3, 1))

\* C15 witness: the token 25.0 has been normalized to 1.0 and its row
\* gathered.
C15_Witness ==
    /\ eval_str = <<"2", "5", ".", "0">>
    /\ normalized_eval.st = "returned"
    /\ FloatEq(normalized_eval.val, One)
    /\ Len(position_list) = 1

\* C16: a mate token '#N' gives exactly 1.0 or exactly -1.0: 1.0 when N is
\* positive, -1.0 when N is negative, so tokens of opposite sign give
\* opposite extremes; '#5' gives 1.0 and '#-3' gives -1.0.
C16_MateExtremes ==
    (MateToken(eval_str) /\ normalized_eval # NotCalled) =>
        LET r == normalized_eval.val
            n == Tail(eval_str)
            nonzero == \E i \in 1 .. Len(n) : n[i] \in Digits10 \ {"0"}
        IN  /\ r \in {One, MinusOne}
            /\ (nonzero /\ n[1] # "-") => r = One
            /\ (nonzero /\ n[1] = "-") => r = MinusOne
            /\ eval_str = <<"#", "5">> => r = One
            /\ eval_str = <<"#", "-", "3">> => r = MinusOne

\* C16 witness: the token #-3 has been normalized to -1.0.
C16_Witness ==
    /\ eval_str = <<"#", "-", "3">>
    /\ normalized_eval = Returned(MinusOne)
    /\ Len(position_list) = 1

\* C17: a captured token that is neither a signed decimal nor '#' followed
\* by a signed integer gives None and no row; it never gives 0 or any other
\* number.
C17_MalformedFailsClosed ==
    (~SignedDecimal(eval_str) /\ ~MateToken(eval_str)
        /\ normalized_eval # NotCalled) =>
            /\ normalized_eval = Returned(None)
            /\ position_list = <<>>

\* C17 witness: the token 1.2.3 has been through the loop body: None and no
\* row.
C17_Witness ==
    /\ eval_str = <<"1", ".", "2", ".", "3">>
    /\ normalized_eval = Returned(None)
    /\ position_list = <<>>

(***************************************************************************)
(* Claims about the labels (SpecEval, SpecNorm)                            *)
(***************************************************************************)
\* C18: no label is made up: a score stored for the position is the score
\* the engine gave for it (never a default), the rows the fetch hands to
\* training have a label, and that label is the engine's score.
C18_NoMadeUpLabel ==
    /\ db_row.black_score # Null =>
          /\ info.kind = "info"
          /\ info.has_score
          /\ db_row.black_score = Value(ScoreValue(Pov(info, "b"), MateScore))
    /\ train_rows # NotCalled =>
          \A i \in 1 .. Len(train_rows.val) :
              /\ train_rows.val[i].black_score # Null
              /\ info.has_score

\* Whom an engine score favours: 1 for White, -1 for Black, 0 for neither;
\* the score is for the side to move.
SideToMoveSign(sc) ==
    CASE sc.kind = "cp" -> IF sc.v > 0 THEN 1 ELSE IF sc.v < 0 THEN -1 ELSE 0
      [] sc.kind = "mate" -> IF sc.v > 0 THEN 1 ELSE -1
      [] sc.kind = "mate_given" -> 1

EngineFavours(i) ==
    IF i.turn = "w" THEN SideToMoveSign(i.relative)
    ELSE -SideToMoveSign(i.relative)

\* Whom a PGN evaluation token favours: [%eval ...] is written from White's
\* side, a positive number or mate distance being good for White.
TokenFavours(s) ==
    LET nonzero == \E i \in 1 .. Len(s) : s[i] \in Digits10 \ {"0"}
        minus   == \E i \in 1 .. Len(s) : s[i] = "-"
    IN  IF ~nonzero THEN 0 ELSE IF minus THEN -1 ELSE 1

EngineLabelFromBlackView ==
    (db_row.black_score # Null /\ info.kind = "info" /\ info.has_score) =>
        /\ db_row.black_score.v > 0 <=> EngineFavours(info) = -1
        /\ db_row.black_score.v < 0 <=> EngineFavours(info) = 1

PgnLabelFromBlackView ==
    ((SignedDecimal(eval_str) \/ MateToken(eval_str))
        /\ normalized_eval # NotCalled /\ normalized_eval.val # None) =>
            LET r == normalized_eval.val
            IN  /\ (~r.neg /\ r.m > 0) <=> TokenFavours(eval_str) = -1
                /\ (r.neg /\ r.m > 0) <=> TokenFavours(eval_str) = 1

\* C19: on both acquisition paths the stored label is positive exactly when
\* the evaluation favours Black and negative exactly when it favours White,
\* mates included.
C19_LabelsFromBlackView ==
    EngineLabelFromBlackView /\ PgnLabelFromBlackView

(***************************************************************************)
(* The standardizing training scripts, v4_train.py and v5_train.py.  Both  *)
(* make one StandardScaler, call fit_transform on the training frame's     *)
(* black_score column and transform on the validation frame's, train the   *)
(* model on the two results and hand the scaler to training_utils.save.    *)
(*                                                                         *)
(* scikit-learn's StandardScaler: fit forgets what was fitted before,      *)
(* refuses an array of no rows with ValueError, and keeps the number of    *)
(* rows, their mean and their variance; scale_ is the square root of the   *)
(* variance, or 1.0 where the variance is 0.  transform refuses an         *)
(* unfitted scaler and an array of no rows, and gives (x - mean_) / scale_ *)
(* without touching the scaler.  fit_transform(X) is fit(X).transform(X).  *)
(*                                                                         *)
(* The labels are integers, so the mean and the variance are kept as exact *)
(* fractions, and a standardized label as the fraction x - mean_ over the  *)
(* scale_ it was divided by.                                               *)
(***************************************************************************)
MaxTrainLabels == 3
MaxValLabels   == 2

\* black_score values of the rows, in centipawns.
LabelValues == {-300, 0, 150}

Scripts == {"v4_train", "v5_train"}

NotFittedError == [kind |-> "NotFittedError"]

RECURSIVE SumOf(_)
SumOf(X) == IF X = <<>> THEN 0 ELSE Head(X) + SumOf(Tail(X))

LabelSquares(X) == [i \in DOMAIN X |-> X[i] * X[i]]

\* StandardScaler(): nothing is fitted.
StandardScaler == Unfitted

\* What fit leaves in the scaler for a column X of at least one row.
Fitted(X) ==
    LET n == Len(X)
    IN  [fitted          |-> TRUE,
         n_samples_seen_ |-> n,
         mean_           |-> [num |-> SumOf(X), den |-> n],
         var_            |-> [num |-> n * SumOf(LabelSquares(X)) - SumOf(X) * SumOf(X),
                              den |-> n * n]]

\* scale_: sqrt(var_), with 1.0 in place of a zero.
scale_(sc) == IF sc.var_.num = 0 THEN [kind |-> "one"]
              ELSE [kind |-> "sqrt", of |-> sc.var_]

\* (x - mean_) / scale_ for one label.
Standardize(sc, x) ==
    [centred |-> [num |-> x * sc.mean_.den - sc.mean_.num, den |-> sc.mean_.den],
     over    |-> scale_(sc)]

Call(op, X) == [op |-> op, X |-> X]

fit(sc, X) ==
    IF Len(X) = 0
    THEN [scaler |-> Unfitted, calls |-> <<Call("fit", X)>>, out |-> Raised(ValueError)]
    ELSE [scaler |-> Fitted(X), calls |-> <<Call("fit", X)>>, out |-> Returned(Fitted(X))]

\* The mutant fits the scaler again on the column it is given.
transform_Refit(sc, X) ==
    LET f == fit(sc, X)
    IN  IF f.out.st = "raised" THEN f
        ELSE [scaler |-> f.scaler,
              calls  |-> f.calls \o <<Call("transform", X)>>,
              out    |-> Returned([i \in DOMAIN X |-> Standardize(f.scaler, X[i])])]

transform(sc, X) ==
    [scaler |-> sc,
     calls  |-> <<Call("transform", X)>>,
     out    |-> IF ~sc.fitted THEN Raised(NotFittedError)
                ELSE IF Len(X) = 0 THEN Raised(ValueError)
                ELSE Returned([i \in DOMAIN X |-> Standardize(sc, X[i])])]

fit_transform(sc, X) ==
    LET f == fit(sc, X)
    IN  IF f.out.st = "raised" THEN f
        ELSE LET t == transform(f.scaler, X)
             IN  [scaler |-> t.scaler, calls |-> f.calls \o t.calls, out |-> t.out]

SeqsUpTo(S, n) == UNION {[1 .. k -> S] : k \in 0 .. n}

\* The black_score columns of the two frames the fetch returned.
LabelFrames ==
    [train : SeqsUpTo(LabelValues, MaxTrainLabels),
     val   : SeqsUpTo(LabelValues, MaxValLabels)]

InitScale ==
    /\ fen = StartFen
    /\ EncIdle
    /\ SplitIdle
    /\ PipeIdle
    /\ DriversIdle
    /\ NormIdle
    /\ EvalIdle
    /\ LaterIdle
    /\ script \in Scripts
    /\ where = "fetched"
    /\ label_df \in LabelFrames
    /\ scaler = Null
    /\ scaler_calls = <<>>
    /\ y_train = NotCalled
    /\ y_val = NotCalled
    /\ scaler_pkl = Null

\* scaler = StandardScaler()
NewScaler ==
    /\ where = "fetched"
    /\ scaler' = StandardScaler
    /\ where' = "scaler"
    /\ UNCHANGED <<encVars, splitVars, pipeVars, laterVars, driverVars, normVars, evalVars,
                   script, label_df, scaler_calls, y_train, y_val, scaler_pkl>>

\* y_train = scaler.fit_transform(train_df[['black_score']])
FitTransformTrain ==
    /\ where = "scaler"
    /\ LET r == fit_transform(scaler, label_df.train)
       IN  /\ scaler' = r.scaler
           /\ scaler_calls' = scaler_calls \o r.calls
           /\ y_train' = r.out
           /\ where' = IF r.out.st = "raised" THEN "raised" ELSE "train_scaled"
    /\ UNCHANGED <<encVars, splitVars, pipeVars, laterVars, driverVars, normVars, evalVars,
                   script, label_df, y_val, scaler_pkl>>

\* y_val = scaler.transform(val_df[['black_score']])
TransformVal ==
    /\ where = "train_scaled"
    /\ LET r == transform(scaler, label_df.val)
       IN  /\ scaler' = r.scaler
           /\ scaler_calls' = scaler_calls \o r.calls
           /\ y_val' = r.out
           /\ where' = IF r.out.st = "raised" THEN "raised" ELSE "val_scaled"
    /\ UNCHANGED <<encVars, splitVars, pipeVars, laterVars, driverVars, normVars, evalVars,
                   script, label_df, y_train, scaler_pkl>>

\* model.fit(x_train, y_train, validation_data=(x_val, y_val)): the labels
\* are read, the scaler is not an argument.
ModelFit ==
    /\ where = "val_scaled"
    /\ y_train.st = "returned"
    /\ y_val.st = "returned"
    /\ where' = "trained"
    /\ UNCHANGED <<encVars, splitVars, pipeVars, laterVars, driverVars, normVars, evalVars,
                   script, label_df, scaler, scaler_calls, y_train, y_val, scaler_pkl>>

\* training_utils.save(model, history, version, metadata, scaler): the
\* scaler's (mean, scale) pair is persisted.
SaveScaler ==
    /\ where = "trained"
    /\ scaler_pkl' = Value([mean |-> scaler.mean_, scale |-> scale_(scaler)])
    /\ where' = "saved"
    /\ UNCHANGED <<encVars, splitVars, pipeVars, laterVars, driverVars, normVars, evalVars,
                   script, label_df, scaler, scaler_calls, y_train, y_val>>

NextScale ==
    \/ NewScaler
    \/ FitTransformTrain
    \/ TransformVal
    \/ ModelFit
    \/ SaveScaler

SpecScale == InitScale /\ [][NextScale]_vars

(***************************************************************************)
(* Claims about the label scaler.                                          *)
(***************************************************************************)
Fits == {i \in DOMAIN scaler_calls : scaler_calls[i].op = "fit"}

\* Where the script is between its fit and its call of training_utils.save.
AfterFit == {"train_scaled", "val_scaled", "trained"}

\* C20: in v4 and v5 the label scaler is fitted exactly once, on the
\* training labels only and before any transform; the validation labels are
\* transformed with those fitted parameters, and the parameters stay what
\* that one fit made them for the rest of the run.
C20_FitOnceOnTrain ==
    /\ Cardinality(Fits) <= 1
    /\ \A i \in Fits : i = 1 /\ scaler_calls[i].X = label_df.train
    /\ scaler_calls # <<>> => 1 \in Fits
    /\ where \in AfterFit =>
          /\ Cardinality(Fits) = 1
          /\ scaler = Fitted(label_df.train)
    /\ y_val.st = "returned" =>
          y_val.val = [i \in DOMAIN label_df.val |->
                          Standardize(Fitted(label_df.train), label_df.val[i])]

\* A run that trained with training labels that differ among
\* themselves and validation labels that are not the training labels.
C20_Witness ==
    /\ where = "trained"
    /\ Fitted(label_df.train).var_.num # 0
    /\ label_df.val # label_df.train
    /\ Len(label_df.val) = MaxValLabels
    /\ Fitted(label_df.val) # Fitted(label_df.train)
    /\ y_val.st = "returned"

(***************************************************************************)
(* SpecCalls: one process calling the two board encoders again and again,  *)
(* on any position in any order.  Both encoders build their arrays and     *)
(* their lookup tables inside the call (np.zeros, the piece_to_index dict, *)
(* the pieces list, chess.Board(fen)) and read nothing that a call writes. *)
(***************************************************************************)
MaxCalls == 3

CallFens == {StartFen, Fen3, Fen5, BadFen}

EncCall(fn, P, out) == [fn |-> fn, fen |-> P, out |-> out]

InitCalls ==
    /\ fen = StartFen
    /\ EncIdle
    /\ SplitIdle
    /\ PipeIdle
    /\ DriversIdle
    /\ NormIdle
    /\ EvalIdle
    /\ ScaleIdle
    /\ LoopIdle
    /\ EngineIdle
    /\ RunsIdle
    /\ DbIdle
    /\ PgnIdle
    /\ enc_calls = <<>>

CallEncodeFenToBitboard(P) ==
    /\ Len(enc_calls) < MaxCalls
    /\ enc_calls' = Append(enc_calls,
                           EncCall("encode_fen_to_bitboard", P, encode_fen_to_bitboard(P)))
    /\ UNCHANGED notCallVars

CallEncodeFenString(P) ==
    /\ Len(enc_calls) < MaxCalls
    /\ enc_calls' = Append(enc_calls,
                           EncCall("encode_fen_string", P, encode_fen_string(P)))
    /\ UNCHANGED notCallVars

NextCalls ==
    \/ \E P \in CallFens : CallEncodeFenToBitboard(P)
    \/ \E P \in CallFens : CallEncodeFenString(P)

SpecCalls == InitCalls /\ [][NextCalls]_vars

MaxPositions  == 3
LoopBatchSize == 2

\* Answers of engine.analyse: a score with a move; the side to move is mated
\* (a score, no move); no score; an exception.
LoopAnswers ==
    { [kind |-> "info", has_score |-> TRUE, relative |-> Cp(2), turn |-> "w",
       has_pv |-> TRUE],
      [kind |-> "info", has_score |-> TRUE, relative |-> Mate(0), turn |-> "b",
       has_pv |-> FALSE],
      [kind |-> "info", has_score |-> FALSE, relative |-> Cp(0), turn |-> "w",
       has_pv |-> FALSE],
      [kind |-> "exception"] }

PositionRow(a, sc, mv) == [answer |-> a, black_score |-> sc, best_move |-> mv]

\* Rows as an earlier run or the import left them: not evaluated, a score
\* without a move, or both.
PositionRows ==
    { PositionRow(a, sc, Null) : a \in LoopAnswers, sc \in {Null, Value(7)} }
        \cup { PositionRow(a, Value(7), Value("e2e4")) : a \in LoopAnswers }

Unrated(tbl) ==
    {id \in DOMAIN tbl : tbl[id].black_score = Null \/ tbl[id].best_move = Null}

\* The ids of a set in ascending order.
RECURSIVE Ascending(_)
Ascending(S) ==
    IF S = {} THEN <<>>
    ELSE LET lo == CHOOSE x \in S : \A y \in S : x <= y
         IN  <<lo>> \o Ascending(S \ {lo})

\* fetch_unrated_positions: the results the query may give, any limit rows
\* of the unrated ones (all of them when there are no more than limit).
fetch_unrated_positions(tbl, limit) ==
    {S \in SUBSET Unrated(tbl) : Cardinality(S) = Min(limit, Cardinality(Unrated(tbl)))}

Triple(id, r) == [pos_id |-> id, score |-> r.score, best_move |-> r.best_move]

\* pool.map(evaluate_position, positions): one triple per position, in order.
PoolMap(tbl, ps) ==
    [i \in DOMAIN ps |-> Triple(ps[i], evaluate_position(tbl[ps[i]].answer))]

\* The mutant writes every result, the ones without a score included.
update_rows_Unfiltered(evaluated_data) == evaluated_data

\* update_rows: the results whose score is not None.
update_rows(evaluated_data) ==
    SelectSeq(evaluated_data, LAMBDA t : t.score # Null)

\* cursor.executemany(query, update_rows): one UPDATE ... WHERE id = pos_id
\* after the other.
RECURSIVE executemany(_, _)
executemany(tbl, rows) ==
    IF rows = <<>> THEN tbl
    ELSE LET t == Head(rows)
         IN  executemany(
                 [tbl EXCEPT ![t.pos_id] =
                     [@ EXCEPT !.black_score = t.score, !.best_move = t.best_move]],
                 Tail(rows))

update_positions_in_db(tbl, evaluated_data) ==
    executemany(tbl, update_rows(evaluated_data))

InitLoop ==
    /\ fen = StartFen
    /\ EncIdle
    /\ SplitIdle
    /\ PipeIdle
    /\ DriversIdle
    /\ NormIdle
    /\ EvalIdle
    /\ ScaleIdle
    /\ CallsIdle
    /\ EngineIdle
    /\ RunsIdle
    /\ DbIdle
    /\ PgnIdle
    /\ chess_positions \in SeqsUpTo(PositionRows, MaxPositions)
    /\ loop_at = "connect"
    /\ positions = {}
    /\ evaluated_positions = <<>>

\* conn = get_db_connection(); positions = fetch_unrated_positions(conn, BATCH_SIZE)
FetchUnrated ==
    /\ loop_at = "connect"
    /\ positions' \in fetch_unrated_positions(chess_positions, LoopBatchSize)
    /\ evaluated_positions' = <<>>
    /\ loop_at' = "fetched"
    /\ UNCHANGED <<notLoopVars, chess_positions>>

\* fetch_unrated_positions, except mysql.connector.Error: return [].
FetchError ==
    /\ loop_at = "connect"
    /\ positions' = {}
    /\ evaluated_positions' = <<>>
    /\ loop_at' = "fetched"
    /\ UNCHANGED <<notLoopVars, chess_positions>>

\* if not positions: conn.close(); break
NoPositionsLeft ==
    /\ loop_at = "fetched"
    /\ positions = {}
    /\ loop_at' = "done"
    /\ UNCHANGED <<notLoopVars, chess_positions, positions, evaluated_positions>>

\* evaluated_positions = pool.map(evaluate_position, positions)
EvaluateBatch ==
    /\ loop_at = "fetched"
    /\ positions # {}
    /\ evaluated_positions' = PoolMap(chess_positions, Ascending(positions))
    /\ loop_at' = "evaluated"
    /\ UNCHANGED <<notLoopVars, chess_positions, positions>>

\* update_positions_in_db(conn, evaluated_positions), committed.
UpdateBatch ==
    /\ loop_at = "evaluated"
    /\ chess_positions' = update_positions_in_db(chess_positions, evaluated_positions)
    /\ loop_at' = "updated"
    /\ UNCHANGED <<notLoopVars, positions, evaluated_positions>>

\* update_positions_in_db, except mysql.connector.Error: nothing is committed.
UpdateError ==
    /\ loop_at = "evaluated"
    /\ loop_at' = "updated"
    /\ UNCHANGED <<notLoopVars, chess_positions, positions, evaluated_positions>>

\* conn.close(); the next turn of while True.
NextBatch ==
    /\ loop_at = "updated"
    /\ loop_at' = "connect"
    /\ UNCHANGED <<notLoopVars, chess_positions, positions, evaluated_positions>>

NextLoop ==
    \/ FetchUnrated
    \/ FetchError
    \/ NoPositionsLeft
    \/ EvaluateBatch
    \/ UpdateBatch
    \/ UpdateError
    \/ NextBatch

SpecLoop == InitLoop /\ [][NextLoop]_vars

\* The loop keeps running: no step that can be taken is put off for ever.
SpecLoopFair == SpecLoop /\ WF_vars(NextLoop)

\* C22: the loop of main ends, whatever the table holds.
C22_LoopTerminates == <>(loop_at = "done")

\* The result pool.map returned for a row, if the row was in the batch.
ResultsFor(id) ==
    {evaluated_positions[i] : i \in {j \in DOMAIN evaluated_positions :
                                        evaluated_positions[j].pos_id = id}}

\* C23: a step of update_positions_in_db leaves every row alone whose result
\* has no score (and every row that was not in the batch), and a row it
\* changes holds the score and the best move computed for its own id.
C23_UpdateFrame ==
    [][(loop_at = "evaluated" /\ loop_at' = "updated") =>
          \A id \in DOMAIN chess_positions :
              /\ (\A t \in ResultsFor(id) : t.score = Null)
                     => chess_positions'[id] = chess_positions[id]
              /\ chess_positions'[id] # chess_positions[id]
                     => \E t \in ResultsFor(id) :
                           /\ t.score # Null
                           /\ t = Triple(id, evaluate_position(chess_positions[id].answer))
                           /\ chess_positions'[id].black_score = t.score
                           /\ chess_positions'[id].best_move = t.best_move
                           /\ chess_positions'[id].answer = chess_positions[id].answer]_vars

\* An update has run on a batch of two: one result without a score for a row
\* that holds a score from before, one result that was written.
C23_Witness ==
    /\ loop_at = "updated"
    /\ \E i, j \in DOMAIN evaluated_positions :
          /\ evaluated_positions[i].score = Null
          /\ chess_positions[evaluated_positions[i].pos_id].black_score = Value(7)
          /\ evaluated_positions[j].score = Value(-2)
          /\ chess_positions[evaluated_positions[j].pos_id].black_score = Value(-2)

(***************************************************************************)
(* SpecEngine: one call of evaluate_position, step by step.  The engine is *)
(* started by SimpleEngine.popen_uci as the context manager of a with      *)
(* block; configure, chess.Board and analyse run inside the block and may  *)
(* raise; leaving the block, by return or by an exception, runs            *)
(* SimpleEngine.__exit__, which closes the engine; the except clause       *)
(* around the block turns every exception into (position_id, None, None).  *)
(* popen_uci itself either hands over a running engine or raises with no   *)
(* engine left (the file is missing, or the handshake failed and the       *)
(* library closed what it had started).                                    *)
(***************************************************************************)
MaxPositionId == 2

\* What the engine gives when analyse returns.
AnalyseInfos == EngineInfos \ {[kind |-> "exception"]}

\* The argument (position_id, board_fen) and what will happen in the call.
PositionData ==
    [kind : {"position"}, position_id : 1 .. MaxPositionId,
     fen_ok : BOOLEAN, answer : AnalyseInfos]

\* The mutant closes the engine only when the block is left without an
\* exception (a close at the end of the block instead of a with statement).
engine_exit_OnSuccessOnly(eng, exc) == IF exc THEN eng ELSE "closed"

\* SimpleEngine.__exit__(exc_type, exc_value, traceback): self.close().
engine_exit(eng, exc) == "closed"

InitEngine ==
    /\ fen = StartFen
    /\ EncIdle
    /\ SplitIdle
    /\ PipeIdle
    /\ DriversIdle
    /\ NormIdle
    /\ EvalIdle
    /\ ScaleIdle
    /\ CallsIdle
    /\ LoopIdle
    /\ RunsIdle
    /\ DbIdle
    /\ PgnIdle
    /\ position_data \in PositionData
    /\ ev_at = "try"
    /\ engine = "not_started"
    /\ ev_exc = FALSE
    /\ ev_info = NotCalled
    /\ ev_result = NotCalled

\* with chess.engine.SimpleEngine.popen_uci(STOCKFISH_PATH) as engine:
PopenUci ==
    /\ ev_at = "try"
    /\ engine' = "running"
    /\ ev_at' = "configure"
    /\ UNCHANGED <<notEngVars, position_data, ev_exc, ev_info, ev_result>>

\* popen_uci raises: the with block is not entered.
PopenUciFails ==
    /\ ev_at = "try"
    /\ engine' \in {"not_started", "closed"}
    /\ ev_exc' = TRUE
    /\ ev_at' = "except"
    /\ UNCHANGED <<notEngVars, position_data, ev_info, ev_result>>

\* engine.configure({"Threads": 1})
Configure ==
    /\ ev_at = "configure"
    /\ ev_at' = "board"
    /\ UNCHANGED <<notEngVars, position_data, engine, ev_exc, ev_info, ev_result>>

ConfigureFails ==
    /\ ev_at = "configure"
    /\ ev_exc' = TRUE
    /\ ev_at' = "exit_with"
    /\ UNCHANGED <<notEngVars, position_data, engine, ev_info, ev_result>>

\* board = chess.Board(board_fen): ValueError when the string is no position.
MakeBoard ==
    /\ ev_at = "board"
    /\ ev_exc' = ~position_data.fen_ok
    /\ ev_at' = IF position_data.fen_ok THEN "analyse" ELSE "exit_with"
    /\ UNCHANGED <<notEngVars, position_data, engine, ev_info, ev_result>>

\* info = engine.analyse(board, chess.engine.Limit(depth=...))
Analyse ==
    /\ ev_at = "analyse"
    /\ ev_info' = Returned(position_data.answer)
    /\ ev_at' = "return"
    /\ UNCHANGED <<notEngVars, position_data, engine, ev_exc, ev_result>>

AnalyseFails ==
    /\ ev_at = "analyse"
    /\ ev_exc' = TRUE
    /\ ev_at' = "exit_with"
    /\ UNCHANGED <<notEngVars, position_data, engine, ev_info, ev_result>>

\* Lines 71 to 80: the triple is computed and the return leaves the block.
ComputeTriple ==
    /\ ev_at = "return"
    /\ ev_result' = Returned(Triple(position_data.position_id,
                                    evaluate_position(ev_info.val)))
    /\ ev_at' = "exit_with"
    /\ UNCHANGED <<notEngVars, position_data, engine, ev_exc, ev_info>>

\* Leaving the with block: __exit__ runs, then the return completes or the
\* exception goes on to the except clause.
ExitWith ==
    /\ ev_at = "exit_with"
    /\ engine' = engine_exit(engine, ev_exc)
    /\ ev_at' = IF ev_exc THEN "except" ELSE "returned"
    /\ UNCHANGED <<notEngVars, position_data, ev_exc, ev_info, ev_result>>

\* except Exception as e: return position_id, None, None
ExceptReturn ==
    /\ ev_at = "except"
    /\ ev_exc' = FALSE
    /\ ev_result' = Returned(Triple(position_data.position_id,
                                    evaluate_position([kind |-> "exception"])))
    /\ ev_at' = "returned"
    /\ UNCHANGED <<notEngVars, position_data, engine, ev_info>>

NextEngine ==
    \/ PopenUci
    \/ PopenUciFails
    \/ Configure
    \/ ConfigureFails
    \/ MakeBoard
    \/ Analyse
    \/ AnalyseFails
    \/ ComputeTriple
    \/ ExitWith
    \/ ExceptReturn

SpecEngine == InitEngine /\ [][NextEngine]_vars

\* C24: an engine runs only while the call is inside the with block; when
\* evaluate_position has returned, or is in its except clause, the engine it
\* started has been closed, on every exit path.
C24_EngineClosedOnReturn ==
    /\ engine = "running" =>
          ev_at \in {"configure", "board", "analyse", "return", "exit_with"}
    /\ ev_at = "returned" =>
          /\ engine \in {"not_started", "closed"}
          /\ ev_result.st = "returned"
          /\ ~ev_exc

\* The call has returned (id, None, None) after an exception inside the with
\* block, with the engine it had started closed.
C24_Witness ==
    /\ ev_at = "returned"
    /\ engine = "closed"
    /\ ev_result.val.score = Null
    /\ ev_info = NotCalled
    /\ position_data.fen_ok

(***************************************************************************)
(* SpecRuns and SpecTwoMains: the training mains (v9, v10; v8 has the same *)
(* lines) and the two record files they share, with the files' contents    *)
(* kept as the ids of the source rows.  A main tests os.path.exists on     *)
(* both paths; if one is missing it fetches once and writes train, then    *)
(* val; then it builds its datasets.  create_tfrecord_file opens a         *)
(* TFRecordWriter on the path (the file exists and is empty from then on), *)
(* writes the rows and closes it.  A main may be killed at any point and   *)
(* started again.  The query has no ORDER BY: a fetch gives the rows in    *)
(* any order.  In SpecRuns one main runs at a time; in SpecTwoMains two    *)
(* mains run side by side.                                                 *)
(***************************************************************************)
MaxSourceRows == 3
MaxRuns       == 3

Procs == {1, 2}

\* pd.read_sql(query, ...): the rows of the table in the order the server
\* returns them.
FetchOrders ==
    {df \in [1 .. MaxSourceRows -> 1 .. MaxSourceRows] :
        \A i, j \in 1 .. MaxSourceRows : df[i] = df[j] => i = j}

Missing == [exists |-> FALSE, complete |-> FALSE, rows |-> <<>>, from |-> 0,
            writers |-> {}]

\* A file a finished create_tfrecord_file left.
Complete(rows, k) ==
    [exists |-> TRUE, complete |-> TRUE, rows |-> rows, from |-> k, writers |-> {}]

MainOff == [pc |-> "off", dfs |-> NoDfs, todo |-> <<>>, missing |-> {},
            fetched |-> FALSE, fetch |-> 0]

\* os.path.exists is false for ...
MissingPaths(disk) == {f \in FileNames : ~disk[f].exists}

\* The mutant writes only the files that are missing.
FilesToWrite_OnlyMissing(disk) ==
    SelectSeq(<<"train", "val">>, LAMBDA f : ~disk[f].exists)

\* The mutant writes both files in every run.
FilesToWrite_Always(disk) == <<"train", "val">>

\* if not exists(TRAIN) or not exists(VAL): both files are written, train
\* first.
FilesToWrite(disk) ==
    IF ~disk["train"].exists \/ ~disk["val"].exists THEN <<"train", "val">> ELSE <<>>

InitRuns ==
    /\ fen = StartFen
    /\ EncIdle
    /\ SplitIdle
    /\ PipeIdle
    /\ DriversIdle
    /\ NormIdle
    /\ EvalIdle
    /\ ScaleIdle
    /\ CallsIdle
    /\ LoopIdle
    /\ EngineIdle
    /\ DbIdle
    /\ PgnIdle
    /\ \/ tfrecords = [f \in FileNames |-> Missing]
       \/ \E df \in FetchOrders :
             tfrecords = [f \in FileNames |-> Complete(fetch_data_from_db(df)[f], 0)]
    /\ mains = [p \in Procs |-> MainOff]
    /\ nfetches = 0
    /\ nruns = 0

\* python vN_train.py
StartMain(p) ==
    /\ mains[p].pc = "off"
    /\ nruns < MaxRuns
    /\ nruns' = nruns + 1
    /\ mains' = [mains EXCEPT ![p] = [MainOff EXCEPT !.pc = "check"]]
    /\ UNCHANGED <<notRunVars, tfrecords, nfetches>>

\* The exists test, and the fetch when a file is missing.
CheckPaths(p) ==
    /\ mains[p].pc = "check"
    /\ LET todo == FilesToWrite(tfrecords)
       IN  IF todo # <<>>
           THEN /\ \E df \in FetchOrders :
                      mains' = [mains EXCEPT ![p] =
                                   [pc |-> "open", dfs |-> fetch_data_from_db(df),
                                    todo |-> todo, missing |-> MissingPaths(tfrecords),
                                    fetched |-> TRUE, fetch |-> nfetches + 1]]
                /\ nfetches' = nfetches + 1
           ELSE /\ mains' = [mains EXCEPT ![p].pc = "datasets",
                                          ![p].missing = MissingPaths(tfrecords)]
                /\ UNCHANGED nfetches
    /\ UNCHANGED <<notRunVars, tfrecords, nruns>>

\* with tf.io.TFRecordWriter(filename) as writer: the file is created or
\* truncated.
OpenWriter(p) ==
    /\ mains[p].pc = "open"
    /\ LET f == Head(mains[p].todo)
       IN  tfrecords' = [tfrecords EXCEPT ![f] =
                            [exists |-> TRUE, complete |-> FALSE, rows |-> <<>>,
                             from |-> mains[p].fetch,
                             writers |-> tfrecords[f].writers \cup {p}]]
    /\ mains' = [mains EXCEPT ![p].pc = "writing"]
    /\ UNCHANGED <<notRunVars, nfetches, nruns>>

\* The rows are written and the writer is closed.
CloseWriter(p) ==
    /\ mains[p].pc = "writing"
    /\ LET f == Head(mains[p].todo)
       IN  tfrecords' = [tfrecords EXCEPT ![f] =
                            [exists |-> TRUE, complete |-> TRUE,
                             rows |-> mains[p].dfs[f], from |-> mains[p].fetch,
                             writers |-> tfrecords[f].writers \ {p}]]
    /\ mains' = [mains EXCEPT ![p].todo = Tail(mains[p].todo),
                              ![p].pc = IF Tail(mains[p].todo) = <<>>
                                        THEN "datasets" ELSE "open"]
    /\ UNCHANGED <<notRunVars, nfetches, nruns>>

\* The process is stopped from outside; a file it was writing keeps the rows
\* written so far.
KillMain(p) ==
    /\ mains[p].pc \in {"check", "open", "writing", "datasets"}
    /\ IF mains[p].pc = "writing"
       THEN LET f == Head(mains[p].todo)
            IN  \E n \in 0 .. Len(mains[p].dfs[f]) :
                   tfrecords' = [tfrecords EXCEPT ![f] =
                                    [exists |-> TRUE, complete |-> FALSE,
                                     rows |-> SubSeq(mains[p].dfs[f], 1, n),
                                     from |-> mains[p].fetch,
                                     writers |-> tfrecords[f].writers \ {p}]]
       ELSE UNCHANGED tfrecords
    /\ mains' = [mains EXCEPT ![p] = MainOff]
    /\ UNCHANGED <<notRunVars, nfetches, nruns>>

\* train_dataset = create_dataset(TRAIN, ...); val_dataset = create_dataset(VAL, ...)
BuildDatasets(p) ==
    /\ mains[p].pc = "datasets"
    /\ mains' = [mains EXCEPT ![p].pc = "fit"]
    /\ UNCHANGED <<notRunVars, tfrecords, nfetches, nruns>>

\* build_model, model.fit, save_model_and_history: the run ends.
EndMain(p) ==
    /\ mains[p].pc = "fit"
    /\ mains' = [mains EXCEPT ![p] = MainOff]
    /\ UNCHANGED <<notRunVars, tfrecords, nfetches, nruns>>

MainStep(p) ==
    \/ StartMain(p)
    \/ CheckPaths(p)
    \/ OpenWriter(p)
    \/ CloseWriter(p)
    \/ KillMain(p)
    \/ BuildDatasets(p)
    \/ EndMain(p)

\* One main at a time.
NextRuns == MainStep(1)

SpecRuns == InitRuns /\ [][NextRuns]_vars

\* Two mains side by side.
NextTwoMains == \E p \in Procs : MainStep(p)

SpecTwoMains == InitRuns /\ [][NextTwoMains]_vars

\* C25 as claimed: no step changes a file that is complete.
C25_CompleteNeverRewritten ==
    [][\A f \in FileNames :
          tfrecords[f].complete => tfrecords'[f] = tfrecords[f]]_vars

\* C25 as amended: a run that finds both files at its start makes no fetch
\* and changes no file; a file, complete or not, is changed only by a run
\* that found one of the two files missing.
C25_RewrittenOnlyWhenOneMissing ==
    [][/\ \A f \in FileNames :
             tfrecords'[f] # tfrecords[f] =>
                \E p \in Procs : /\ mains[p].pc \in {"open", "writing"}
                                 /\ mains[p].missing # {}
       /\ \A p \in Procs :
             (mains'[p].fetched \/ mains'[p].pc \in {"open", "writing"})
                 => mains'[p].missing # {}]_vars

\* A third run found both files, complete, and went on to fit without a
\* fetch; the files are those of the second run, which had found train
\* complete and val missing.
C25_Witness ==
    /\ nruns = 3
    /\ nfetches = 2
    /\ mains[1].pc = "fit"
    /\ mains[1].missing = {}
    /\ ~mains[1].fetched
    /\ \A f \in FileNames : tfrecords[f].complete /\ tfrecords[f].from = 2

\* C26: at most one writer has a record file open.
C26_SingleWriter ==
    \A f \in FileNames : Cardinality(tfrecords[f].writers) <= 1

\* C30: a main that builds its datasets finds two files written from one
\* fetch, and no source row is in both.
C30_FilesFromOneFetch ==
    \A p \in Procs :
        mains[p].pc \in {"datasets", "fit"} =>
            /\ tfrecords["train"].exists /\ tfrecords["val"].exists
            /\ tfrecords["train"].from = tfrecords["val"].from
            /\ Elems(tfrecords["train"].rows) \cap Elems(tfrecords["val"].rows) = {}

\* A run builds its datasets on files of the second fetch, after an earlier
\* run was stopped with train complete and val not yet opened.
C30_Witness ==
    /\ mains[1].pc = "datasets"
    /\ nruns >= 2
    /\ nfetches = 2
    /\ tfrecords["train"].from = 2
    /\ tfrecords["val"].complete
    /\ tfrecords["train"].rows # <<>>

(***************************************************************************)
(* SpecDb: one call of insert_position_list_into_db, insert_fen_into_db,   *)
(* initialize_database or reset_evaluations, step by step.  All four have  *)
(* the shape                                                               *)
(*     try: conn = connect(); cursor = conn.cursor(); statements; commit   *)
(*     except mysql.connector.Error as err: print(...)                     *)
(*     finally: cursor.close(); conn.close()                               *)
(* (reset_evaluations opens its cursor in a with statement and closes only *)
(* conn in finally).  conn and cursor are local names that are bound by    *)
(* the assignments in the try block; reading a local name that was never   *)
(* bound raises UnboundLocalError.                                         *)
(***************************************************************************)
MaxListLen  == 3
DbBatchSize == 2

DbFunctions == {"insert_position_list_into_db", "insert_fen_into_db",
                "initialize_database", "reset_evaluations"}

Inserters == {"insert_position_list_into_db", "insert_fen_into_db"}

DbFens == {"fen1", "fen2", "fen3"}

\* The rows of the table an inserter fills, whether chess_positions_lichess
\* exists, and whether chess_positions holds evaluations.
Databases ==
    [kind : {"mysql"}, fens : SUBSET {"fen1"}, lichess_table : BOOLEAN,
     evaluations : BOOLEAN]

\* The argument lists: no fen twice, up to MaxListLen long.
DbLists ==
    {l \in SeqsUpTo(DbFens, MaxListLen) : \A i, j \in DOMAIN l : l[i] = l[j] => i = j}

\* The names the finally clause reads.
FinallyReads(fn, locals) ==
    IF fn = "reset_evaluations" THEN {"conn"} ELSE {"cursor", "conn"}

\* position_list[i:i + BATCH_SIZE]
BatchAt(l, i) == SubSeq(l, i + 1, Min(i + DbBatchSize, Len(l)))

\* What the statements of one turn do once committed.
Committed(db, fn, batch) ==
    CASE fn \in Inserters -> [db EXCEPT !.fens = @ \cup Elems(batch)]
      [] fn = "initialize_database" -> [db EXCEPT !.lichess_table = TRUE]
      [] fn = "reset_evaluations" -> [db EXCEPT !.evaluations = FALSE]

InitDb ==
    /\ fen = StartFen
    /\ EncIdle
    /\ SplitIdle
    /\ PipeIdle
    /\ DriversIdle
    /\ NormIdle
    /\ EvalIdle
    /\ ScaleIdle
    /\ CallsIdle
    /\ LoopIdle
    /\ EngineIdle
    /\ RunsIdle
    /\ PgnIdle
    /\ \E fn \in DbFunctions :
       \E l \in (IF fn \in Inserters THEN DbLists ELSE {<<>>}) :
          db_call = [at |-> "connect", fn |-> fn, arg |-> l, locals |-> {},
                     exc |-> "none", reported |-> FALSE, connected |-> FALSE, i |-> 0]
    /\ database \in Databases
    /\ database_before = database

\* conn = mysql.connector.connect, the first statement of the try block
DbConnect ==
    /\ db_call.at = "connect"
    /\ db_call' = [db_call EXCEPT !.locals = @ \cup {"conn"}, !.connected = TRUE,
                                  !.at = "cursor"]
    /\ UNCHANGED <<notDbVars, database, database_before>>

\* connect raises mysql.connector.Error: the connection cannot be opened.
DbConnectFails ==
    /\ db_call.at = "connect"
    /\ db_call' = [db_call EXCEPT !.exc = "mysql.connector.Error", !.at = "except"]
    /\ UNCHANGED <<notDbVars, database, database_before>>

\* cursor = conn.cursor()
DbCursor ==
    /\ db_call.at = "cursor"
    /\ db_call' = [db_call EXCEPT !.locals = @ \cup {"cursor"},
                      !.at = IF db_call.fn \in Inserters /\ db_call.arg = <<>>
                             THEN "finally" ELSE "execute"]
    /\ UNCHANGED <<notDbVars, database, database_before>>

\* The statements of one turn and conn.commit().
DbExecuteCommit ==
    /\ db_call.at = "execute"
    /\ database' = Committed(database, db_call.fn, BatchAt(db_call.arg, db_call.i))
    /\ db_call' = [db_call EXCEPT !.i = @ + DbBatchSize,
                      !.at = IF db_call.fn \in Inserters
                                /\ db_call.i + DbBatchSize < Len(db_call.arg)
                             THEN "execute" ELSE "finally"]
    /\ UNCHANGED <<notDbVars, database_before>>

\* A statement raises mysql.connector.Error; nothing of the turn is committed.
DbExecuteFails ==
    /\ db_call.at = "execute"
    /\ db_call' = [db_call EXCEPT !.exc = "mysql.connector.Error", !.at = "except"]
    /\ UNCHANGED <<notDbVars, database, database_before>>

\* except mysql.connector.Error as err: print(f"MySQL Error: {err}")
DbExcept ==
    /\ db_call.at = "except"
    /\ db_call' = [db_call EXCEPT !.exc = "none", !.reported = TRUE, !.at = "finally"]
    /\ UNCHANGED <<notDbVars, database, database_before>>

\* finally: cursor.close(); conn.close()
DbFinally ==
    /\ db_call.at = "finally"
    /\ db_call' = IF FinallyReads(db_call.fn, db_call.locals) \subseteq db_call.locals
                  THEN [db_call EXCEPT !.at = "returned"]
                  ELSE [db_call EXCEPT !.exc = "UnboundLocalError", !.at = "raised"]
    /\ UNCHANGED <<notDbVars, database, database_before>>

NextDb ==
    \/ DbConnect
    \/ DbConnectFails
    \/ DbCursor
    \/ DbExecuteCommit
    \/ DbExecuteFails
    \/ DbExcept
    \/ DbFinally

SpecDb == InitDb /\ [][NextDb]_vars

\* C29: a call that could not open the connection has ended by returning,
\* with the MySQL error reported and the database as it was.
C29_ConnectFailureHandled ==
    (db_call.at \in {"returned", "raised"} /\ ~db_call.connected) =>
        /\ db_call.at = "returned"
        /\ db_call.exc = "none"
        /\ db_call.reported
        /\ database = database_before

(***************************************************************************)
(* SpecPgn: extract_positions_and_evaluations_from_pgn_file on one file.   *)
(* A game is its WhiteElo and BlackElo headers and the comments of the     *)
(* nodes of game.mainline(), which are the nodes after the root: the first *)
(* of them is the position after the first move.  A comment holds an eval  *)
(* token or none.  random.sample gives distinct elements in any order.     *)
(* insert_position_list_into_db returns, or ends with the exception its    *)
(* finally clause raises when the connection could not be opened.          *)
(***************************************************************************)
MaxGames         == 3
PositionsPerGame == 2
PgnBatchSize     == 2
MinElo           == 2000

NoComment == [kind |-> "none"]

EvalComment(token) == [kind |-> "eval", token |-> token]

PgnGame(w, b, comments) == [white_elo |-> w, black_elo |-> b, mainline |-> comments]

CommentA == EvalComment(<<"0", ".", "3">>)
CommentB == EvalComment(<<"-", "1", ".", "5">>)
CommentM == EvalComment(<<"#", "3">>)
\* '[%eval -]': a token that is no number.
CommentX == EvalComment(<<"-">>)

\* game.headers.get(...): a string, or None for a header that is absent.
Header(chars) == [kind |-> "str", chars |-> chars]

Elo2400 == Header(<<"2", "4", "0", "0">>)
Elo2000 == Header(<<"2", "0", "0", "0">>)
Elo1999 == Header(<<"1", "9", "9", "9">>)

Games ==
    { PgnGame(Elo2400, Elo2000, <<CommentA, CommentB, CommentA, CommentM>>),
      PgnGame(Elo2000, Elo2400, <<CommentA, NoComment, CommentX, CommentB>>),
      PgnGame(Elo1999, Elo2400, <<CommentA, CommentB>>),
      PgnGame(Elo2400, None, <<CommentA, CommentB>>),
      PgnGame(Header(<<"?">>), Elo2400, <<CommentA, CommentB>>),
      PgnGame(Elo2400, Elo2400, <<CommentA>>) }

IntValue(r) == IF r.neg THEN -r.n ELSE r.n

\* The mutant tests WhiteElo only.
EloFilter_WhiteOnly(game) ==
    IF game.white_elo = None THEN "continue"
    ELSE IF PyInt(game.white_elo.chars) = ValueError THEN "raise"
    ELSE IF IntValue(PyInt(game.white_elo.chars)) < MinElo THEN "continue"
    ELSE "accept"

\* Lines 108 to 113: continue when a header is missing or a rating is below
\* 2000; int() raises ValueError on a header that is no number.
EloFilter(game) ==
    IF game.white_elo = None \/ game.black_elo = None THEN "continue"
    ELSE IF PyInt(game.white_elo.chars) = ValueError THEN "raise"
    ELSE IF IntValue(PyInt(game.white_elo.chars)) < MinElo THEN "continue"
    ELSE IF PyInt(game.black_elo.chars) = ValueError THEN "raise"
    ELSE IF IntValue(PyInt(game.black_elo.chars)) < MinElo THEN "continue"
    ELSE "accept"

\* [node for node in nodes[1:] if EVAL_REGEX.search(node.comment)], as the
\* positions of the nodes in nodes.
nodes_with_eval(nodes) ==
    {i \in 2 .. Len(nodes) : nodes[i].kind = "eval"}

\* random.sample(population, k)
RandomSample(population, k) ==
    {smp \in [1 .. k -> population] : \A i, j \in 1 .. k : smp[i] = smp[j] => i = j}

SampledNode(g, i, c) == [game |-> g, node |-> i, token |-> c.token]

Pair(n, e) == [game |-> n.game, node |-> n.node, evaluation |-> e]

\* How insert_position_list_into_db ends.
insert_position_list_into_db(connect_ok) ==
    IF connect_ok \/ FinallyReads("insert_position_list_into_db", {}) = {}
    THEN "returned" ELSE "raised"

InsertCall(l, end) == [list |-> l, end |-> end]

InitPgn ==
    /\ fen = StartFen
    /\ EncIdle
    /\ SplitIdle
    /\ PipeIdle
    /\ DriversIdle
    /\ NormIdle
    /\ EvalIdle
    /\ ScaleIdle
    /\ CallsIdle
    /\ LoopIdle
    /\ EngineIdle
    /\ RunsIdle
    /\ DbIdle
    /\ pgn_file \in SeqsUpTo(Games, MaxGames)
    /\ pgn_run = [at |-> "read", game_no |-> 0, sampled_nodes |-> <<>>,
                  position_list |-> <<>>]
    /\ accepted = <<>>
    /\ insert_calls = <<>>

\* game = chess.pgn.read_game(pgn_file) down to random.sample.
ReadGame ==
    /\ pgn_run.at = "read"
    /\ pgn_run.game_no < Len(pgn_file)
    /\ LET g     == pgn_run.game_no + 1
           game  == pgn_file[g]
           nodes == game.mainline
           cands == nodes_with_eval(nodes)
       IN  IF EloFilter(game) # "accept" \/ Len(nodes) < 2 \/ cands = {}
           THEN pgn_run' = [pgn_run EXCEPT !.game_no = g]
           ELSE \E smp \in RandomSample(cands, Min(PositionsPerGame, Cardinality(cands))) :
                   pgn_run' = [pgn_run EXCEPT
                       !.game_no = g,
                       !.at = "nodes",
                       !.sampled_nodes =
                           [i \in DOMAIN smp |-> SampledNode(g, smp[i], nodes[smp[i]])]]
    /\ UNCHANGED <<notPgnVars, pgn_file, accepted, insert_calls>>

\* The body of 'for node in sampled_nodes' for one node; connect_ok says
\* whether the connection can be opened if the list is flushed.
ProcessNode(connect_ok) ==
    /\ pgn_run.at = "nodes"
    /\ LET node == Head(pgn_run.sampled_nodes)
           rest == Tail(pgn_run.sampled_nodes)
           normalized_eval_ == normalize_evaluation(node.token)
           list == Append(pgn_run.position_list, Pair(node, normalized_eval_))
           end  == insert_position_list_into_db(connect_ok)
       IN  IF normalized_eval_ = None
           THEN /\ pgn_run' = [pgn_run EXCEPT !.sampled_nodes = rest,
                                  !.at = IF rest = <<>> THEN "read" ELSE "nodes"]
                /\ UNCHANGED <<accepted, insert_calls>>
           ELSE /\ accepted' = Append(accepted, Pair(node, normalized_eval_))
                /\ IF Len(list) >= PgnBatchSize
                   THEN /\ insert_calls' = Append(insert_calls, InsertCall(list, end))
                        /\ pgn_run' =
                              IF end = "returned"
                              THEN [pgn_run EXCEPT !.position_list = <<>>,
                                       !.sampled_nodes = rest,
                                       !.at = IF rest = <<>> THEN "read" ELSE "nodes"]
                              ELSE [pgn_run EXCEPT !.position_list = list,
                                       !.sampled_nodes = <<>>,
                                       !.at = "read"]
                   ELSE /\ UNCHANGED insert_calls
                        /\ pgn_run' = [pgn_run EXCEPT !.position_list = list,
                                          !.sampled_nodes = rest,
                                          !.at = IF rest = <<>> THEN "read" ELSE "nodes"]
    /\ UNCHANGED <<notPgnVars, pgn_file>>

\* if game is None: break
ReadEof ==
    /\ pgn_run.at = "read"
    /\ pgn_run.game_no = Len(pgn_file)
    /\ pgn_run' = [pgn_run EXCEPT !.at = "flush"]
    /\ UNCHANGED <<notPgnVars, pgn_file, accepted, insert_calls>>

\* if position_list: insert_position_list_into_db(position_list)
FinalFlush(connect_ok) ==
    /\ pgn_run.at = "flush"
    /\ LET end == insert_position_list_into_db(connect_ok)
       IN  IF pgn_run.position_list = <<>>
           THEN /\ pgn_run' = [pgn_run EXCEPT !.at = "done"]
                /\ UNCHANGED insert_calls
           ELSE /\ insert_calls' = Append(insert_calls,
                                          InsertCall(pgn_run.position_list, end))
                /\ pgn_run' = [pgn_run EXCEPT
                                  !.at = IF end = "returned" THEN "done" ELSE "crashed"]
    /\ UNCHANGED <<notPgnVars, pgn_file, accepted>>

NextPgn ==
    \/ ReadGame
    \/ \E ok \in BOOLEAN : ProcessNode(ok)
    \/ ReadEof
    \/ \E ok \in BOOLEAN : FinalFlush(ok)

SpecPgn == InitPgn /\ [][NextPgn]_vars

\* The pairs handed to insert_position_list_into_db so far.
Handed == UNION {Elems(insert_calls[c].list) : c \in DOMAIN insert_calls}

RatingAtLeast(header, n) ==
    /\ header # None
    /\ PyInt(header.chars) # ValueError
    /\ IntValue(PyInt(header.chars)) >= n

\* C27: every pair gathered or handed to the database comes from a game with
\* both ratings present and at least 2000, from a node of the mainline after
\* its first (so never from the starting position) whose comment holds an
\* eval token, and carries that token's normalized value; a game gives at
\* most PositionsPerGame pairs and no node gives two.
C27_PairsFromRatedEvalNodes ==
    /\ Handed \subseteq Elems(accepted)
    /\ Elems(pgn_run.position_list) \subseteq Elems(accepted)
    /\ \A k \in DOMAIN accepted :
          LET pr   == accepted[k]
              game == pgn_file[pr.game]
          IN  /\ RatingAtLeast(game.white_elo, MinElo)
              /\ RatingAtLeast(game.black_elo, MinElo)
              /\ pr.node \in 2 .. Len(game.mainline)
              /\ game.mainline[pr.node].kind = "eval"
              /\ pr.evaluation = normalize_evaluation(game.mainline[pr.node].token)
              /\ pr.evaluation # None
              /\ \A j \in DOMAIN accepted :
                    (accepted[j].game = pr.game /\ accepted[j].node = pr.node) => j = k
    /\ \A g \in DOMAIN pgn_file :
          Cardinality({k \in DOMAIN accepted : accepted[k].game = g}) <= PositionsPerGame

\* The file is read to its end; a game with three eval nodes after the first
\* gave two pairs, and games with a low, a missing or an unreadable rating
\* gave none.
C27_Witness ==
    /\ pgn_run.at = "done"
    /\ Len(pgn_file) = MaxGames
    /\ \E g \in DOMAIN pgn_file :
          /\ Cardinality(nodes_with_eval(pgn_file[g].mainline)) > PositionsPerGame
          /\ Cardinality({k \in DOMAIN accepted : accepted[k].game = g}) = PositionsPerGame
    /\ \E g \in DOMAIN pgn_file : EloFilter(pgn_file[g]) # "accept"
    /\ Handed = Elems(accepted)

\* How often a pair was handed to insert_position_list_into_db.
TimesHanded(pr) ==
    Cardinality({ci \in UNION {{<<c, i>> : i \in DOMAIN insert_calls[c].list} :
                                   c \in DOMAIN insert_calls} :
                    insert_calls[ci[1]].list[ci[2]] = pr})

\* C28: no accepted pair is handed over twice, and when the run is over
\* every accepted pair has been handed over once.
C28_HandedExactlyOnce ==
    \A k \in DOMAIN accepted :
        /\ TimesHanded(accepted[k]) <= 1
        /\ pgn_run.at \in {"done", "crashed"} => TimesHanded(accepted[k]) = 1

====
